---- MODULE Spec2Model ----
\* Verification model of the solar-panel selection engine:
\*   - the four-stage fallback orchestrator of pipeline_code/src/detector.py
\*     (SolarDetector._execute_pipeline, _find_best_match, _finalize_result);
\*   - the scoring selector of pipeline_code/src/geometry.py (find_best_panel).
\* Lengths are pixels. Confidences are percentages (conf = value / 100).
\* A bbox is <<x1, y1, x2, y2>>; a pixel cell <<i, j>> is the unit square
\* [i, i+1] x [j, j+1].  The area of (box /\ disk), which the code takes from
\* shapely (a polygon approximation of the disk), is computed here as the
\* number of pixel cells inside the box whose centre lies inside the disk.
EXTENDS Integers, Sequences, FiniteSets, TLC

VARIABLES
    pc,          \* position inside SolarDetector.detect and _execute_pipeline
    r1200,       \* radius of the 1200 sq.ft buffer, pixels
    r2400,       \* radius of the 2400 sq.ft buffer, pixels
    boxes,       \* detections of the original image
    confs,       \* their confidences
    sat_boxes,   \* detections of the saturation-enhanced image
    sat_confs,   \* their confidences
    result,      \* the result dictionary of _execute_pipeline
    calls,       \* how often each collaborator was invoked
    evals,       \* the methods (stages) whose selection was evaluated, in order
    qc,          \* what quality_checker.check_quality(img) returned in detect
    response,    \* what detect returns: the formatted response
    fbm_ret,     \* what the last call of _find_best_match returned
    fp_pc,            \* position inside geometry.find_best_panel
    polygons,         \* its argument: the list of (polygon, confidence) items
    buffer_radius_px, \* its argument: the buffer radius
    min_overlap,      \* its argument: the minimum overlap area
    fp_i,             \* the loop position (1-based) in polygons
    candidates,       \* the candidates list built by the loop
    fp_ret,           \* the returned (polygon, confidence, overlap)
    fp_raised,        \* the items (1-based) whose loop pass ended in the except clause
    fbd_pc,           \* position inside SolarDetectionPipeline._find_best_detection
    fbd_polygons,     \* its argument: the list of (polygon, confidence) items
    radius_1_px,      \* its argument: the radius of the 1200 sq.ft buffer
    radius_2_px,      \* its argument: the radius of the 2400 sq.ft buffer
    fbd_meters_per_px, \* its argument: the ground resolution
    fbd_result,       \* its result dictionary
    fbd_raised,       \* history: fp_raised of each call of find_best_panel it made
    g_pc,             \* position inside the call of g_in.fn
    g_in,             \* the function called and its arguments
    g_mpp,            \* meters per pixel, as computed inside the call
    g_out,            \* the radii computed so far, each a value or an exception
    runs,             \* the concurrent invocations of _execute_pipeline
    q_pc,             \* position inside check_quality
    q_impl,           \* the module whose ImageQualityChecker is called
    q_img,            \* the image: what cv2 and numpy measure on it
    q_checks,         \* the checks evaluated so far, in order
    q_ret,            \* the returned (status, reason)
    b_pc,             \* position inside SolarPipeline.run
    b_input_ok,       \* whether _load_input can read the input file
    b_samples,        \* the rows of the input file, in order
    b_i,              \* the row the loop of run is at
    b_results,        \* the list results of run
    b_saved,          \* the writes of all_predictions.json
    b_skipped         \* history: the sample_ids logged as skipped

orch_vars == <<pc, r1200, r2400, boxes, confs, sat_boxes, sat_confs, result, calls,
               evals, qc, response, fbm_ret>>

fp_vars == <<fp_pc, polygons, buffer_radius_px, min_overlap, fp_i, candidates, fp_ret, fp_raised>>

fbd_vars == <<fbd_pc, fbd_polygons, radius_1_px, radius_2_px,
              fbd_meters_per_px, fbd_result, fbd_raised>>

geo_vars == <<g_pc, g_in, g_mpp, g_out>>

conc_vars == <<runs>>

qual_vars == <<q_pc, q_impl, q_img, q_checks, q_ret>>

batch_vars == <<b_pc, b_input_ok, b_samples, b_i, b_results, b_saved, b_skipped>>

vars == <<orch_vars, fp_vars, fbd_vars, geo_vars, conc_vars, qual_vars, batch_vars>>

\* ------------------------------------------------------------------ bounds
\* The longest detection list the Detector returns in the model.
MaxDet == 2

\* The longest polygon list handed to find_best_panel in the model.
MaxPolys == 2

\* ------------------------------------------------------------------ program constants
\* The buffer areas (sq.ft) behind AppConfig.BUFFER_1200 and BUFFER_2400, the
\* minimum overlap area, and the divisor of the size bonus.
BUFFER_1200 == 1200
BUFFER_2400 == 2400
MIN_OVERLAP_AREA == 10
SIZE_BONUS_DIV == 10000

\* 156543.03392, the metres per pixel at zoom 0 on the equator, in metres;
\* MAP_SCALE and ZOOM_LEVEL of the configuration; 0.092903 (sq.ft to sq.m) in
\* units of 1e-6; math.pi in units of 1 / 10000.
K_METERS == 156543
MAP_SCALE == 2
ZOOM_LEVEL == 20
SQFT_TO_SQM_E6 == 92903
PI_E4 == 31416

\* quality.ImageQualityChecker: the defaults of min_brightness, max_brightness
\* and blur_threshold, and the bound on np.std(gray).
MIN_BRIGHTNESS == 40
MAX_BRIGHTNESS == 250
BLUR_THRESHOLD == 100
MIN_STD == 10

\* image_processor.ImageQualityChecker as pipeline.py and server.py build it:
\* Config.BRIGHTNESS_THRESHOLD_LOW, CLOUD_THRESHOLD (0.7, in percent) and
\* MIN_IMAGE_VARIANCE.  BRIGHTNESS_THRESHOLD_HIGH (225) is the level above
\* which a pixel counts as bright: bright_pct of an image.
BRIGHTNESS_THRESHOLD_LOW == 30
CLOUD_THRESHOLD_PCT == 70
MIN_IMAGE_VARIANCE == 100

\* detect: center = (w // 2, h // 2), here of a 100 x 100 image.
Center == <<50, 50>>

\* The (r1200, r2400) pairs detect() hands to _execute_pipeline: radii of a
\* low zoom level, r2400 about sqrt(2) * r1200.
RadiusPairs == {<<2, 3>>}

NoBox == <<>>

\* ------------------------------------------------------------------ inputs
\* Bounding boxes the Detector may report.
BoxIn    == <<49, 49, 51, 51>>   \* inside the narrow disk, overlap 4
BoxRing  == <<47, 49, 48, 51>>   \* outside the narrow disk, inside the wide one
BoxFar   == <<53, 53, 54, 54>>   \* outside both disks
BoxClip  == <<48, 48, 60, 52>>   \* covers the narrow disk, centroid 4 px away
BoxFlat  == <<49, 50, 51, 50>>   \* collapsed to a segment through the centre: area 0

BoxPool == {BoxIn, BoxRing, BoxFar, BoxClip, BoxFlat}

ConfLevels == {50, 90}

Det(b, c) == [bbox |-> b, conf |-> c]

\* What the Detector may report: BoxIn with either confidence, the other
\* boxes with one.
Detections ==
    {Det(BoxIn, 50), Det(BoxIn, 90), Det(BoxRing, 90), Det(BoxFar, 50),
     Det(BoxClip, 50), Det(BoxFlat, 90)}

\* The outcomes of ImageQualityChecker.check_quality: (status, reason).
QcOutcomes ==
    {[status |-> "VERIFIABLE", reason |-> "Quality OK"],
     [status |-> "NOT_VERIFIABLE", reason |-> "Image too blurry"]}

SeqsUpTo(S, n) == UNION {[1..k -> S] : k \in 0..n}

DetLists == SeqsUpTo(Detections, MaxDet)

\* ------------------------------------------------------------------ geometry
Sq(x) == x * x

\* The pixel cells whose centre lies within radius of center.
CellsWithin(center, radius) ==
    {c \in ((center[1] - radius - 1)..(center[1] + radius))
             \X ((center[2] - radius - 1)..(center[2] + radius)) :
        Sq(2 * c[1] + 1 - 2 * center[1]) + Sq(2 * c[2] + 1 - 2 * center[2])
            <= 4 * Sq(radius)}

\* The disks around Center, computed once.
CenterDisks == [radius \in 0..4 |-> CellsWithin(Center, radius)]

DiskCells(center, radius) ==
    IF center = Center /\ radius \in DOMAIN CenterDisks
    THEN CenterDisks[radius]
    ELSE CellsWithin(center, radius)

CellInBox(c, bbox) ==
    /\ bbox[1] <= c[1] /\ c[1] + 1 <= bbox[3]
    /\ bbox[2] <= c[2] /\ c[2] + 1 <= bbox[4]

\* The overlaps of the boxes of BoxPool with the disks around Center,
\* computed once.
BoxOverlaps ==
    [b \in BoxPool, radius \in DOMAIN CenterDisks |->
        Cardinality({c \in CenterDisks[radius] : CellInBox(c, b)})]

\* utils.calculate_intersection_area
calculate_intersection_area(bbox, center, radius) ==
    IF Len(bbox) < 4 THEN 0
    ELSE IF center = Center /\ <<bbox, radius>> \in DOMAIN BoxOverlaps
    THEN BoxOverlaps[bbox, radius]
    ELSE Cardinality({c \in DiskCells(center, radius) : CellInBox(c, bbox)})

\* ------------------------------------------------------------------ selection
\* The loop taking a box whose overlap is at least the largest so far.
RECURSIVE FindBestFromLastWins(_, _, _, _, _, _)
FindBestFromLastWins(bs, center, radius, i, best_idx, max_overlap) ==
    IF i > Len(bs) THEN <<best_idx, max_overlap>>
    ELSE LET overlap == calculate_intersection_area(bs[i], center, radius)
         IN  IF overlap >= max_overlap
             THEN FindBestFromLastWins(bs, center, radius, i + 1, i - 1, overlap)
             ELSE FindBestFromLastWins(bs, center, radius, i + 1, best_idx, max_overlap)

\* SolarDetector._find_best_match: the loop from position i on.
\* Indices are Python's: 0-based, -1 for "no box".
RECURSIVE FindBestFrom(_, _, _, _, _, _)
FindBestFrom(bs, center, radius, i, best_idx, max_overlap) ==
    IF i > Len(bs) THEN <<best_idx, max_overlap>>
    ELSE LET overlap == calculate_intersection_area(bs[i], center, radius)
         IN  IF overlap > max_overlap
             THEN FindBestFrom(bs, center, radius, i + 1, i - 1, overlap)
             ELSE FindBestFrom(bs, center, radius, i + 1, best_idx, max_overlap)

find_best_match(bs, center, radius) == FindBestFrom(bs, center, radius, 1, -1, 0)

\* best_idx = -1, max_overlap = 0.0: what _find_best_match starts from.
NoMatch == <<-1, 0>>

\* _finalize_result without the 'method' entry of result.update.
finalize_result_keeps_method(res, bs, cs, idx, buf_sqft, radius, method) ==
    [res EXCEPT !.has_solar = TRUE,
                !.confidence = cs[idx + 1],
                !.bbox = bs[idx + 1],
                !.buffer_sqft = buf_sqft,
                !.radius = radius,
                !.all_boxes = bs,
                !.all_confs = cs,
                !.selected_idx = idx]

\* _finalize_result without the all_boxes and all_confs entries of result.update.
finalize_result_keeps_pool(res, bs, cs, idx, buf_sqft, radius, method) ==
    [res EXCEPT !.has_solar = TRUE,
                !.confidence = cs[idx + 1],
                !.bbox = bs[idx + 1],
                !.buffer_sqft = buf_sqft,
                !.radius = radius,
                !.method = method,
                !.selected_idx = idx]

\* SolarDetector._finalize_result.  The entries obb_points, area_sqm and
\* distance_m, which no stage reads, are left out of the result.
finalize_result(res, bs, cs, idx, buf_sqft, radius, method) ==
    [res EXCEPT !.has_solar = TRUE,
                !.confidence = cs[idx + 1],
                !.bbox = bs[idx + 1],
                !.buffer_sqft = buf_sqft,
                !.radius = radius,
                !.method = method,
                !.all_boxes = bs,
                !.all_confs = cs,
                !.selected_idx = idx]

\* The initial result with index 0 where "no box" is -1.
InitialResultIndexZero(r) ==
    [has_solar |-> FALSE, confidence |-> 0, bbox |-> NoBox,
     buffer_sqft |-> BUFFER_2400, radius |-> r, method |-> "none",
     all_boxes |-> <<>>, all_confs |-> <<>>, selected_idx |-> 0]

\* The result dictionary _execute_pipeline starts from.
InitialResult(r) ==
    [has_solar |-> FALSE, confidence |-> 0, bbox |-> NoBox,
     buffer_sqft |-> BUFFER_2400, radius |-> r, method |-> "none",
     all_boxes |-> <<>>, all_confs |-> <<>>, selected_idx |-> -1]

\* SolarDetector._format_response: the entries that come from result.
format_response(res) ==
    [has_solar |-> res.has_solar,
     confidence |-> res.confidence,
     buffer_radius_sqft |-> res.buffer_sqft,
     qc_status |-> res.qc_status,
     bbox_or_mask |-> res.bbox,
     detection_method |-> res.method,
     qc_reason |-> res.qc_reason]

\* SolarDetector._create_error_result.  sample_id, lat and lon, which the
\* formatted response carries as well, are left out of both.
create_error_result(msg) ==
    [has_solar |-> FALSE, confidence |-> 0, error |-> msg, bbox_or_mask |-> NoBox]

\* Nothing returned yet.
NoResponse ==
    [has_solar |-> FALSE, confidence |-> 0, buffer_radius_sqft |-> 0,
     qc_status |-> "", bbox_or_mask |-> NoBox, detection_method |-> "",
     qc_reason |-> ""]

BoxesOf(dets) == [i \in 1..Len(dets) |-> dets[i].bbox]
ConfsOf(dets) == [i \in 1..Len(dets) |-> dets[i].conf]

\* ------------------------------------------------------------------ resolution and radii
\* Floats are fixed-point integers: cosines and meters per pixel in units of
\* 1 / 10000, radii in metres in units of 1 / 1000, radii in pixels in units of
\* 1 / 100.  A quotient is rounded towards zero, but a float that is not 0.0
\* is never represented by 0: it keeps its sign (floats underflow only below
\* 1e-308).
Sign(a) == IF a > 0 THEN 1 ELSE IF a < 0 THEN -1 ELSE 0
Abs(a) == IF a >= 0 THEN a ELSE -a

FloatDiv(a, b) ==
    LET q == Abs(a) \div Abs(b)
    IN  IF a = 0 THEN 0
        ELSE IF q = 0 THEN Sign(a) * Sign(b)
        ELSE Sign(a) * Sign(b) * q

\* The latitudes (degrees) of the model.  The code validates none: 120 stands
\* for the arguments beyond the poles.
Lats == {0, 60, 90, -90, 120}

\* math.cos(math.radians(lat)).  At 90 and -90 degrees the float result is
\* 6.123e-17, not 0.0: math.radians(90) is not exactly pi / 2.
CosE4 == [lat \in Lats |->
             CASE lat = 0 -> 10000
               [] lat = 60 -> 5000
               [] lat \in {90, -90} -> 1
               [] lat = 120 -> -5000]

\* The latitudes at which the cosine is 0 in exact arithmetic.
Polar(lat) == lat \in {90, -90}

\* The meters per pixel of the default zoom level, whatever the zoom.
get_meters_per_pixel_of_default_zoom(lat, zoom, scale) ==
    FloatDiv(FloatDiv(K_METERS * CosE4[lat], 2^ZOOM_LEVEL), scale)

\* geometry.get_meters_per_pixel:
\* 156543.03392 * math.cos(math.radians(lat)) / (2 ** zoom) / scale
get_meters_per_pixel(lat, zoom, scale) ==
    FloatDiv(FloatDiv(K_METERS * CosE4[lat], 2^zoom), scale)

\* utils.calculate_meters_per_pixel: the same expression.
calculate_meters_per_pixel(lat, zoom, scale) ==
    FloatDiv(FloatDiv(K_METERS * CosE4[lat], 2^zoom), scale)

\* The integer square root of n: the largest r in lo..hi with r * r <= n.
RECURSIVE SqrtBetween(_, _, _)
SqrtBetween(n, lo, hi) ==
    IF lo = hi THEN lo
    ELSE LET mid == (lo + hi + 1) \div 2
         IN  IF mid * mid <= n THEN SqrtBetween(n, mid, hi)
             ELSE SqrtBetween(n, lo, mid - 1)

isqrt(n) == SqrtBetween(n, 0, 2^15)

\* A radius that shrinks as the area grows: the square root of pi / area_sqm.
radius_m_of_inverse(area_sqft, sqft_to_sqm) ==
    LET x == (area_sqft * sqft_to_sqm) \div 1000 + 1
    IN  isqrt((PI_E4 * 10000) \div x)

\* math.sqrt(area_sqm / math.pi) for area_sqft * sqft_to_sqm >= 0: the radius
\* in units of 1 / 1000 m.  x is the area in units of 1e-6 m^2.
radius_m(area_sqft, sqft_to_sqm) ==
    LET x == area_sqft * sqft_to_sqm
        y == (x \div PI_E4) * 10000 + ((x % PI_E4) * 10000) \div PI_E4
    IN  isqrt(y)

\* The outcome of a call: a returned value or a raised exception.
Returned(v) == [kind |-> "value", value |-> v]
Raised(exc) == [kind |-> exc, value |-> 0]

\* utils.calculate_radius_from_area_sqft.  math.sqrt raises ValueError on a
\* negative argument, the division raises ZeroDivisionError on 0.0; there is
\* no other test.
calculate_radius_from_area_sqft(area_sqft, meters_per_pixel) ==
    IF area_sqft < 0 THEN Raised("ValueError")
    ELSE IF meters_per_pixel = 0 THEN Raised("ZeroDivisionError")
    ELSE Returned(FloatDiv(radius_m(area_sqft, SQFT_TO_SQM_E6) * 1000,
                           meters_per_pixel))

\* geometry.buffer_radius_to_pixels
buffer_radius_to_pixels(buffer_sqft, sqft_to_sqm, lat, zoom, scale) ==
    IF buffer_sqft * sqft_to_sqm < 0 THEN Raised("ValueError")
    ELSE LET meters_per_px == get_meters_per_pixel(lat, zoom, scale)
         IN  IF meters_per_px = 0 THEN Raised("ZeroDivisionError")
             ELSE Returned(FloatDiv(radius_m(buffer_sqft, sqft_to_sqm) * 1000,
                                    meters_per_px))

\* No call.
NoCall == [fn |-> "none", lat |-> 0, zoom |-> 0, scale |-> 0, area_sqft |-> 0, mpp |-> 0]

\* ------------------------------------------------------------------ find_best_panel: geometry
\* A polygon is an axis-aligned rectangle <<x1, y1, x2, y2>> (a 4-point polygon).
PolyIn    == <<49, 49, 51, 51>>    \* inside the narrow disk, overlap 4
PolyCover == <<48, 48, 52, 52>>    \* covers the narrow disk, overlap 12
PolyRing  == <<47, 49, 48, 51>>    \* touches the narrow disk, inside the wide one
PolyFar   == <<52, 53, 53, 54>>    \* disjoint from both disks, centroid within 1.5 * 3
PolyClip  == <<48, 48, 60, 52>>    \* covers the narrow disk, centroid 4 px away
PolyImage == <<0, 0, 100, 100>>    \* the whole image, area 10000
PolyHalf  == <<10, 10, 90, 90>>    \* area 6400
PolyFlat  == <<49, 50, 51, 50>>    \* collapsed to a segment through the centre: area 0

PolyPool == {PolyIn, PolyCover, PolyRing, PolyFar, PolyClip, PolyImage, PolyHalf, PolyFlat}

Items == [poly : PolyPool, conf : ConfLevels]

PolyLists == SeqsUpTo(Items, MaxPolys)

\* The radii and thresholds find_best_panel is called with.
Radii == {2, 3}
MinOverlaps == {0, MIN_OVERLAP_AREA}

\* Python's None where a polygon is expected.
None == <<>>

Max(a, b) == IF a >= b THEN a ELSE b
Min(a, b) == IF a <= b THEN a ELSE b

\* buffer_circle.intersects(poly): some point of poly is within radius of center.
Intersects(poly, center, radius) ==
    LET dx == Max(Max(poly[1] - center[1], center[1] - poly[3]), 0)
        dy == Max(Max(poly[2] - center[2], center[2] - poly[4]), 0)
    IN  Sq(dx) + Sq(dy) <= Sq(radius)

\* buffer_circle.intersection(poly).area
OverlapArea(poly, center, radius) ==
    Cardinality({c \in DiskCells(center, radius) : CellInBox(c, poly)})

\* poly.area
PolyArea(poly) == (poly[3] - poly[1]) * (poly[4] - poly[2])

\* centroid_dist > buffer_radius_px * 1.5, with the centroid of the rectangle
\* at ((x1 + x2) / 2, (y1 + y2) / 2): both sides squared and multiplied by 4.
CentroidTooFar(poly, center, radius) ==
    Sq(poly[1] + poly[3] - 2 * center[1]) + Sq(poly[2] + poly[4] - 2 * center[2])
        > 9 * Sq(radius)

\* poly.is_valid, for a rectangle: it has an interior.
IsValid(poly) == poly[1] < poly[3] /\ poly[2] < poly[4]

\* Whether the shapely operations of the loop body (intersects, intersection,
\* centroid) raise on poly: never on a valid polygon; on an invalid one it
\* depends on the geometry library, so both outcomes are possible.
MayRaise(poly) == IF IsValid(poly) THEN {FALSE} ELSE {FALSE, TRUE}

\* size_bonus = min(panel_area / 10000, 0.5), in units of 1 / 10000.
size_bonus(panel_area) == Min(panel_area, 5000)

\* score = overlap_area * (1 + size_bonus) * conf, multiplied by 10000 * 100.
score_of(overlap_area, panel_area, conf) ==
    overlap_area * (SIZE_BONUS_DIV + size_bonus(panel_area)) * conf

\* The sort placing x before the elements of equal score (not stable).
RECURSIVE InsertBeforeEqual(_, _)
InsertBeforeEqual(sorted, x) ==
    IF sorted = <<>> THEN <<x>>
    ELSE IF Head(sorted).score > x.score
         THEN <<Head(sorted)>> \o InsertBeforeEqual(Tail(sorted), x)
         ELSE <<x>> \o sorted

\* The sort without reverse=True: lowest score first.
RECURSIVE InsertAscending(_, _)
InsertAscending(sorted, x) ==
    IF sorted = <<>> THEN <<x>>
    ELSE IF Head(sorted).score <= x.score
         THEN <<Head(sorted)>> \o InsertAscending(Tail(sorted), x)
         ELSE <<x>> \o sorted

RECURSIVE sort_ascending(_)
sort_ascending(cands) ==
    IF cands = <<>> THEN <<>>
    ELSE InsertAscending(sort_ascending(SubSeq(cands, 1, Len(cands) - 1)),
                         cands[Len(cands)])

\* candidates.sort(key=lambda x: x['score'], reverse=True): a stable sort,
\* elements of equal score keep their order.  x goes behind every element
\* whose score is at least its own.
RECURSIVE InsertByScore(_, _)
InsertByScore(sorted, x) ==
    IF sorted = <<>> THEN <<x>>
    ELSE IF Head(sorted).score >= x.score
         THEN <<Head(sorted)>> \o InsertByScore(Tail(sorted), x)
         ELSE <<x>> \o sorted

RECURSIVE sort_by_score(_)
sort_by_score(cands) ==
    IF cands = <<>> THEN <<>>
    ELSE InsertByScore(sort_by_score(SubSeq(cands, 1, Len(cands) - 1)),
                       cands[Len(cands)])

NoReturn == [polygon |-> None, confidence |-> 0, overlap |-> 0, item |-> 0]

\* find_best_panel is not running.
FpIdle ==
    /\ fp_pc = "idle"
    /\ polygons = <<>>
    /\ buffer_radius_px = 0
    /\ min_overlap = 0
    /\ fp_i = 0
    /\ candidates = <<>>
    /\ fp_ret = NoReturn
    /\ fp_raised = {}

\* The result dictionary _find_best_detection starts from.  area_sqm is in
\* units of 1e-8 sq.m (pixels times the square of meters per pixel).
FbdInitialResult(r2) ==
    [has_solar |-> FALSE, buffer_sqft |-> BUFFER_2400, area_sqm |-> 0,
     confidence |-> 0, polygon |-> None, radius_px |-> r2]

\* _find_best_detection is not running.
FbdIdle ==
    /\ fbd_pc = "idle"
    /\ fbd_polygons = <<>>
    /\ radius_1_px = 0 /\ radius_2_px = 0
    /\ fbd_meters_per_px = 0
    /\ fbd_result = FbdInitialResult(0)
    /\ fbd_raised = <<>>

\* None of the resolution and radius functions is being called.
GeoIdle ==
    /\ g_pc = "idle"
    /\ g_in = NoCall
    /\ g_mpp = 0
    /\ g_out = <<>>

\* No concurrent invocations.
ConcIdle == runs = <<>>

\* No image measured: cv2.imread returned None.
NoImage == [loaded |-> FALSE, sharp |-> 0, mean |-> 0, std |-> 0, bright_pct |-> 0]

NoVerdict == [status |-> "", reason |-> ""]

\* check_quality is not running.
QualIdle ==
    /\ q_pc = "idle"
    /\ q_impl = "none"
    /\ q_img = NoImage
    /\ q_checks = <<>>
    /\ q_ret = NoVerdict

\* SolarDetectionPipeline.run is not running.
BatchIdle ==
    /\ b_pc = "idle"
    /\ b_input_ok = FALSE
    /\ b_samples = <<>>
    /\ b_i = 0
    /\ b_results = <<>>
    /\ b_saved = <<>>
    /\ b_skipped = <<>>

\* ------------------------------------------------------------------ orchestrator
Init ==
    /\ pc = "load"
    /\ \E rp \in RadiusPairs :
          /\ r1200 = rp[1]
          /\ r2400 = rp[2]
          /\ result = InitialResult(rp[2])
    /\ boxes = <<>> /\ confs = <<>>
    /\ sat_boxes = <<>> /\ sat_confs = <<>>
    /\ calls = [det_orig |-> 0, det_sat |-> 0, enh |-> 0]
    /\ evals = <<>>
    /\ qc = NoVerdict
    /\ response = NoResponse
    /\ fbm_ret = NoMatch
    /\ FpIdle
    /\ FbdIdle
    /\ GeoIdle
    /\ ConcIdle
    /\ QualIdle
    /\ BatchIdle

\* detect: img = cv2.imread(image_path) returns an image;
\* qc_status, qc_reason = self.quality_checker.check_quality(img)
LoadImage ==
    /\ pc = "load"
    /\ qc' \in QcOutcomes
    /\ pc' = "predict"
    /\ UNCHANGED <<r1200, r2400, boxes, confs, sat_boxes, sat_confs, result,
                   calls, evals, response, fbm_ret>>
    /\ UNCHANGED <<fp_vars, fbd_vars, geo_vars, conc_vars, qual_vars, batch_vars>>

\* detect: if img is None: return self._create_error_result("Image load failed", ...)
LoadImageFails ==
    /\ pc = "load"
    /\ response' = create_error_result("Image load failed")
    /\ pc' = "error_returned"
    /\ UNCHANGED <<r1200, r2400, boxes, confs, sat_boxes, sat_confs, result,
                   calls, evals, qc, fbm_ret>>
    /\ UNCHANGED <<fp_vars, fbd_vars, geo_vars, conc_vars, qual_vars, batch_vars>>

\* boxes, confs = self._predict(img, CONFIDENCE); result['all_boxes'] = boxes
Predict ==
    /\ pc = "predict"
    /\ \E dets \in DetLists :
          /\ boxes' = BoxesOf(dets)
          /\ confs' = ConfsOf(dets)
          /\ result' = [result EXCEPT !.all_boxes = BoxesOf(dets),
                                      !.all_confs = ConfsOf(dets)]
    /\ calls' = [calls EXCEPT !.det_orig = @ + 1]
    /\ pc' = "stage1"
    /\ UNCHANGED <<r1200, r2400, sat_boxes, sat_confs, evals>>
    /\ UNCHANGED <<qc, response, fbm_ret>>
    /\ UNCHANGED <<fp_vars, fbd_vars, geo_vars, conc_vars, qual_vars, batch_vars>>

\* self.model(img, ...) raises: _predict and _execute_pipeline catch nothing.
PredictRaises ==
    /\ pc = "predict"
    /\ calls' = [calls EXCEPT !.det_orig = @ + 1]
    /\ pc' = "aborted"
    /\ UNCHANGED <<r1200, r2400, boxes, confs, sat_boxes, sat_confs, result, evals>>
    /\ UNCHANGED <<qc, response, fbm_ret>>
    /\ UNCHANGED <<fp_vars, fbd_vars, geo_vars, conc_vars, qual_vars, batch_vars>>

\* A stage that finalizes on a match but does not return.
StageNoReturn(at, method, bs, cs, buf_sqft, radius, next) ==
    /\ pc = at
    /\ evals' = Append(evals, method)
    /\ LET best_idx == find_best_match(bs, Center, radius)[1]
       IN  IF best_idx # -1
           THEN result' = finalize_result(result, bs, cs, best_idx,
                                          buf_sqft, radius, method)
           ELSE result' = result
    /\ pc' = next
    /\ fbm_ret' = find_best_match(bs, Center, radius)
    /\ UNCHANGED <<r1200, r2400, boxes, confs, sat_boxes, sat_confs, calls>>
    /\ UNCHANGED <<qc, response>>
    /\ UNCHANGED <<fp_vars, fbd_vars, geo_vars, conc_vars, qual_vars, batch_vars>>

\* One stage: _find_best_match on (bs, radius); on a match finalize and return.
Stage(at, method, bs, cs, buf_sqft, radius, next) ==
    /\ pc = at
    /\ evals' = Append(evals, method)
    /\ LET best_idx == find_best_match(bs, Center, radius)[1]
       IN  IF best_idx # -1
           THEN /\ result' = finalize_result(result, bs, cs, best_idx,
                                             buf_sqft, radius, method)
                /\ pc' = "done"
           ELSE /\ result' = result
                /\ pc' = next
    /\ fbm_ret' = find_best_match(bs, Center, radius)
    /\ UNCHANGED <<r1200, r2400, boxes, confs, sat_boxes, sat_confs, calls>>
    /\ UNCHANGED <<qc, response>>
    /\ UNCHANGED <<fp_vars, fbd_vars, geo_vars, conc_vars, qual_vars, batch_vars>>

\* A first stage that lets nothing match on an image of insufficient quality.
Stage1OnlyIfVerifiable ==
    IF qc.status = "VERIFIABLE"
    THEN Stage("stage1", "initial_1200", boxes, confs, BUFFER_1200, r1200, "enhance")
    ELSE /\ pc = "stage1"
         /\ evals' = Append(evals, "initial_1200")
         /\ pc' = "enhance"
         /\ UNCHANGED <<r1200, r2400, boxes, confs, sat_boxes, sat_confs, result, calls>>
         /\ UNCHANGED <<qc, response, fbm_ret>>
         /\ UNCHANGED <<fp_vars, fbd_vars, geo_vars, conc_vars, qual_vars, batch_vars>>

Stage1 == Stage("stage1", "initial_1200", boxes, confs, BUFFER_1200, r1200, "enhance")

\* img_sat = enhance_saturation(img, 1.5)
Enhance ==
    /\ pc = "enhance"
    /\ calls' = [calls EXCEPT !.enh = @ + 1]
    /\ pc' = "predict_sat"
    /\ UNCHANGED <<r1200, r2400, boxes, confs, sat_boxes, sat_confs, result, evals>>
    /\ UNCHANGED <<qc, response, fbm_ret>>
    /\ UNCHANGED <<fp_vars, fbd_vars, geo_vars, conc_vars, qual_vars, batch_vars>>

\* cv2 raises inside enhance_saturation: nothing catches it.
EnhanceRaises ==
    /\ pc = "enhance"
    /\ calls' = [calls EXCEPT !.enh = @ + 1]
    /\ pc' = "aborted"
    /\ UNCHANGED <<r1200, r2400, boxes, confs, sat_boxes, sat_confs, result, evals>>
    /\ UNCHANGED <<qc, response, fbm_ret>>
    /\ UNCHANGED <<fp_vars, fbd_vars, geo_vars, conc_vars, qual_vars, batch_vars>>

\* sat_boxes, sat_confs = self._predict(img_sat, FALLBACK_CONFIDENCE)
PredictSat ==
    /\ pc = "predict_sat"
    /\ \E dets \in DetLists :
          /\ sat_boxes' = BoxesOf(dets)
          /\ sat_confs' = ConfsOf(dets)
    /\ calls' = [calls EXCEPT !.det_sat = @ + 1]
    /\ pc' = "stage2"
    /\ UNCHANGED <<r1200, r2400, boxes, confs, result, evals>>
    /\ UNCHANGED <<qc, response, fbm_ret>>
    /\ UNCHANGED <<fp_vars, fbd_vars, geo_vars, conc_vars, qual_vars, batch_vars>>

PredictSatRaises ==
    /\ pc = "predict_sat"
    /\ calls' = [calls EXCEPT !.det_sat = @ + 1]
    /\ pc' = "aborted"
    /\ UNCHANGED <<r1200, r2400, boxes, confs, sat_boxes, sat_confs, result, evals>>
    /\ UNCHANGED <<qc, response, fbm_ret>>
    /\ UNCHANGED <<fp_vars, fbd_vars, geo_vars, conc_vars, qual_vars, batch_vars>>

\* The second stage widening the buffer instead of taking the enhanced image.
Stage2WideFirst ==
    Stage("stage2", "initial_2400", boxes, confs, BUFFER_2400, r2400, "stage3")

Stage2 == Stage("stage2", "saturated_1200", sat_boxes, sat_confs, BUFFER_1200, r1200, "stage3")

\* The third stage running the Detector on the original image again.
Stage3Repredict ==
    /\ pc = "stage3"
    /\ evals' = Append(evals, "initial_2400")
    /\ calls' = [calls EXCEPT !.det_orig = @ + 1]
    /\ \E dets \in DetLists :
          LET bs == BoxesOf(dets)
              cs == ConfsOf(dets)
              best_idx == find_best_match(bs, Center, r2400)[1]
          IN  /\ boxes' = bs
              /\ confs' = cs
              /\ fbm_ret' = find_best_match(bs, Center, r2400)
              /\ IF best_idx # -1
                 THEN /\ result' = finalize_result(result, bs, cs, best_idx,
                                       BUFFER_2400, r2400, "initial_2400")
                      /\ pc' = "done"
                 ELSE /\ result' = result
                      /\ pc' = "stage4"
    /\ UNCHANGED <<r1200, r2400, sat_boxes, sat_confs>>
    /\ UNCHANGED <<qc, response>>
    /\ UNCHANGED <<fp_vars, fbd_vars, geo_vars, conc_vars, qual_vars, batch_vars>>

Stage3 == Stage("stage3", "initial_2400", boxes, confs, BUFFER_2400, r2400, "stage4")

Stage4 == Stage("stage4", "saturated_2400", sat_boxes, sat_confs, BUFFER_2400, r2400, "exhausted")

\* The exhausted pool preferring the enhanced image's detections.
ExhaustedPrefersSat ==
    /\ pc = "exhausted"
    /\ result' = [result EXCEPT
                    !.all_boxes = IF sat_boxes # <<>> THEN sat_boxes ELSE boxes,
                    !.all_confs = IF sat_confs # <<>> THEN sat_confs ELSE confs]
    /\ pc' = "done"
    /\ UNCHANGED <<r1200, r2400, boxes, confs, sat_boxes, sat_confs, calls, evals>>
    /\ UNCHANGED <<qc, response, fbm_ret>>
    /\ UNCHANGED <<fp_vars, fbd_vars, geo_vars, conc_vars, qual_vars, batch_vars>>

\* No panel found within any buffer zone: keep all detections for visualization.
Exhausted ==
    /\ pc = "exhausted"
    /\ result' = [result EXCEPT
                    !.all_boxes = IF boxes # <<>> THEN boxes ELSE sat_boxes,
                    !.all_confs = IF confs # <<>> THEN confs ELSE sat_confs]
    /\ pc' = "done"
    /\ UNCHANGED <<r1200, r2400, boxes, confs, sat_boxes, sat_confs, calls, evals>>
    /\ UNCHANGED <<qc, response, fbm_ret>>
    /\ UNCHANGED <<fp_vars, fbd_vars, geo_vars, conc_vars, qual_vars, batch_vars>>

\* detect, after _execute_pipeline has returned: result['qc_status'] = qc_status,
\* result['qc_reason'] = qc_reason, the overlay, and the formatted response.
Respond ==
    /\ pc = "done"
    /\ response' = format_response(
           [qc_status |-> qc.status, qc_reason |-> qc.reason] @@ result)
    /\ pc' = "responded"
    /\ UNCHANGED <<r1200, r2400, boxes, confs, sat_boxes, sat_confs, result,
                   calls, evals, qc, fbm_ret>>
    /\ UNCHANGED <<fp_vars, fbd_vars, geo_vars, conc_vars, qual_vars, batch_vars>>

Next ==
    \/ LoadImage
    \/ LoadImageFails
    \/ Predict
    \/ PredictRaises
    \/ Stage1
    \/ Enhance
    \/ EnhanceRaises
    \/ PredictSat
    \/ PredictSatRaises
    \/ Stage2
    \/ Stage3
    \/ Stage4
    \/ Exhausted
    \/ Respond

Spec == Init /\ [][Next]_vars

\* ------------------------------------------------------------------ find_best_panel
\* SolarDetector._execute_pipeline is not running.
OrchIdle ==
    /\ pc = "idle"
    /\ r1200 = 0 /\ r2400 = 0
    /\ boxes = <<>> /\ confs = <<>>
    /\ sat_boxes = <<>> /\ sat_confs = <<>>
    /\ result = InitialResult(0)
    /\ calls = [det_orig |-> 0, det_sat |-> 0, enh |-> 0]
    /\ evals = <<>>
    /\ qc = [status |-> "VERIFIABLE", reason |-> "Quality OK"]
    /\ response = NoResponse
    /\ fbm_ret = NoMatch

InitSel ==
    /\ OrchIdle
    /\ fp_pc = "start"
    /\ polygons \in PolyLists
    /\ buffer_radius_px \in Radii
    /\ min_overlap \in MinOverlaps
    /\ fp_i = 0
    /\ candidates = <<>>
    /\ fp_ret = NoReturn
    /\ fp_raised = {}
    /\ FbdIdle
    /\ GeoIdle
    /\ ConcIdle
    /\ QualIdle
    /\ BatchIdle

\* if not polygons: return None, 0.0, 0.0;  candidates = []
FpStart ==
    /\ fp_pc = "start"
    /\ IF polygons = <<>>
       THEN /\ fp_pc' = "returned"
            /\ fp_i' = fp_i
       ELSE /\ fp_pc' = "loop"
            /\ fp_i' = 1
    /\ UNCHANGED <<polygons, buffer_radius_px, min_overlap, candidates, fp_ret, fp_raised>>
    /\ UNCHANGED <<orch_vars, fbd_vars, geo_vars, conc_vars, qual_vars, batch_vars>>

\* The loop body without the test of buffer_circle.intersects(poly).
ScoredNoIntersects(item, i, center, radius, threshold) ==
    LET poly == item.poly
        overlap_area == OverlapArea(poly, center, radius)
    IN  IF overlap_area < threshold THEN <<>>
        ELSE IF CentroidTooFar(poly, center, radius) THEN <<>>
        ELSE <<[polygon |-> poly, confidence |-> item.conf,
                overlap |-> overlap_area,
                score |-> score_of(overlap_area, PolyArea(poly), item.conf),
                area |-> PolyArea(poly), item |-> i]>>

\* What one pass of the loop body that raises nothing appends to candidates
\* for item number i.
Scored(item, i, center, radius, threshold) ==
    LET poly == item.poly
        overlap_area == OverlapArea(poly, center, radius)
    IN  IF ~Intersects(poly, center, radius) THEN <<>>
        ELSE IF overlap_area < threshold THEN <<>>
        ELSE IF CentroidTooFar(poly, center, radius) THEN <<>>
        ELSE <<[polygon |-> poly, confidence |-> item.conf,
                overlap |-> overlap_area,
                score |-> score_of(overlap_area, PolyArea(poly), item.conf),
                area |-> PolyArea(poly), item |-> i]>>

\* for item in polygons: one pass of the loop body.  The pass is wrapped in
\* try / except Exception: continue.  On a polygon that is not valid the
\* geometry library either raises (the item is skipped) or computes.
FpItem ==
    /\ fp_pc = "loop"
    /\ fp_i <= Len(polygons)
    /\ \E raises \in MayRaise(polygons[fp_i].poly) :
          IF raises
          THEN /\ candidates' = candidates
               /\ fp_raised' = fp_raised \cup {fp_i}
          ELSE /\ candidates' = candidates \o
                      Scored(polygons[fp_i], fp_i, Center, buffer_radius_px, min_overlap)
               /\ fp_raised' = fp_raised
    /\ fp_i' = fp_i + 1
    /\ UNCHANGED <<fp_pc, polygons, buffer_radius_px, min_overlap, fp_ret>>
    /\ UNCHANGED <<orch_vars, fbd_vars, geo_vars, conc_vars, qual_vars, batch_vars>>

\* The selection sorting the argument list itself: the items that became
\* candidates are moved to its front, best first.
FpSelectSortsInput ==
    /\ fp_pc = "loop"
    /\ fp_i > Len(polygons)
    /\ IF candidates = <<>>
       THEN /\ candidates' = candidates
            /\ polygons' = polygons
            /\ fp_ret' = NoReturn
       ELSE LET sorted == sort_by_score(candidates)
                best == sorted[1]
                moved == {sorted[k].item : k \in 1..Len(sorted)}
            IN  /\ candidates' = sorted
                /\ polygons' = [k \in 1..Len(sorted) |-> polygons[sorted[k].item]]
                                  \o SelectSeq(polygons, LAMBDA it :
                                         \A k \in moved : polygons[k] # it)
                /\ fp_ret' = [polygon |-> best.polygon,
                              confidence |-> best.confidence,
                              overlap |-> best.overlap,
                              item |-> best.item]
    /\ fp_pc' = "returned"
    /\ UNCHANGED <<buffer_radius_px, min_overlap, fp_i, fp_raised>>
    /\ UNCHANGED <<orch_vars, fbd_vars, geo_vars, conc_vars, qual_vars, batch_vars>>

\* if not candidates: return None, 0.0, 0.0;  sort; return candidates[0]
FpSelect ==
    /\ fp_pc = "loop"
    /\ fp_i > Len(polygons)
    /\ IF candidates = <<>>
       THEN /\ candidates' = candidates
            /\ fp_ret' = NoReturn
       ELSE LET sorted == sort_by_score(candidates)
                best == sorted[1]
            IN  /\ candidates' = sorted
                /\ fp_ret' = [polygon |-> best.polygon,
                              confidence |-> best.confidence,
                              overlap |-> best.overlap,
                              item |-> best.item]
    /\ fp_pc' = "returned"
    /\ UNCHANGED <<polygons, buffer_radius_px, min_overlap, fp_i, fp_raised>>
    /\ UNCHANGED <<orch_vars, fbd_vars, geo_vars, conc_vars, qual_vars, batch_vars>>

NextSel ==
    \/ FpStart
    \/ FpItem
    \/ FpSelect

SpecSel == InitSel /\ [][NextSel]_vars

\* ------------------------------------------------------------------ _find_best_detection
\* The items _find_best_detection is called with in the model.
FbdItems ==
    {[poly |-> PolyIn, conf |-> 90], [poly |-> PolyCover, conf |-> 50],
     [poly |-> PolyCover, conf |-> 90], [poly |-> PolyRing, conf |-> 90],
     [poly |-> PolyClip, conf |-> 90], [poly |-> PolyFlat, conf |-> 50]}

FbdLists == SeqsUpTo(FbdItems, MaxPolys)

\* The ground resolutions it is called with: those of _process_sample on the
\* equator and at 60 degrees north.
FbdMpps == {get_meters_per_pixel(lat, ZOOM_LEVEL, MAP_SCALE) : lat \in {0, 60}}

\* The (radius_1_px, radius_2_px) pairs it is called with.
FbdRadiusPairs == RadiusPairs \cup {<<3, 4>>}

InitFbd ==
    /\ OrchIdle
    /\ FpIdle
    /\ GeoIdle
    /\ ConcIdle
    /\ QualIdle
    /\ BatchIdle
    /\ fbd_pc = "start"
    /\ fbd_polygons \in FbdLists
    /\ \E rp \in FbdRadiusPairs :
          /\ radius_1_px = rp[1]
          /\ radius_2_px = rp[2]
          /\ fbd_result = FbdInitialResult(rp[2])
    /\ fbd_meters_per_px \in FbdMpps
    /\ fbd_raised = <<>>

\* The state of find_best_panel at a call with these arguments.
FpCalled(items, radius, threshold) ==
    /\ fp_pc' = "start"
    /\ polygons' = items
    /\ buffer_radius_px' = radius
    /\ min_overlap' = threshold
    /\ fp_i' = 0
    /\ candidates' = <<>>
    /\ fp_ret' = NoReturn
    /\ fp_raised' = {}

\* An update that leaves radius_px as it was.
fbd_update_keeps_radius(res, buf_sqft, radius) ==
    [res EXCEPT !.has_solar = TRUE,
                !.buffer_sqft = buf_sqft,
                !.area_sqm = PolyArea(fp_ret.polygon)
                                 * fbd_meters_per_px * fbd_meters_per_px,
                !.confidence = fp_ret.confidence,
                !.polygon = fp_ret.polygon]

\* result.update({...}) after a call that returned a polygon.
fbd_update(res, buf_sqft, radius) ==
    [res EXCEPT !.has_solar = TRUE,
                !.buffer_sqft = buf_sqft,
                !.area_sqm = PolyArea(fp_ret.polygon)
                                 * fbd_meters_per_px * fbd_meters_per_px,
                !.confidence = fp_ret.confidence,
                !.polygon = fp_ret.polygon,
                !.radius_px = radius]

\* if not polygons: return result;  else find_best_panel(polygons, center_px,
\* radius_1_px, Config.MIN_OVERLAP_AREA) is called
FbdStart ==
    /\ fbd_pc = "start"
    /\ IF fbd_polygons = <<>>
       THEN /\ fbd_pc' = "done"
            /\ UNCHANGED fp_vars
       ELSE /\ fbd_pc' = "call1"
            /\ FpCalled(fbd_polygons, radius_1_px, MIN_OVERLAP_AREA)
    /\ UNCHANGED <<fbd_polygons, radius_1_px, radius_2_px, fbd_meters_per_px,
                   fbd_result, fbd_raised>>
    /\ UNCHANGED <<orch_vars, geo_vars, conc_vars, qual_vars, batch_vars>>

\* The first call has returned: on a polygon update and return, otherwise
\* find_best_panel(polygons, center_px, radius_2_px, Config.MIN_OVERLAP_AREA).
FbdNarrowReturned ==
    /\ fbd_pc = "call1"
    /\ fp_pc = "returned"
    /\ IF fp_ret.polygon # None
       THEN /\ fbd_result' = fbd_update(fbd_result, BUFFER_1200, radius_1_px)
            /\ fbd_pc' = "done"
            /\ UNCHANGED fp_vars
       ELSE /\ fbd_result' = fbd_result
            /\ fbd_pc' = "call2"
            /\ FpCalled(fbd_polygons, radius_2_px, MIN_OVERLAP_AREA)
    /\ fbd_raised' = Append(fbd_raised, fp_raised)
    /\ UNCHANGED <<fbd_polygons, radius_1_px, radius_2_px, fbd_meters_per_px>>
    /\ UNCHANGED <<orch_vars, geo_vars, conc_vars, qual_vars, batch_vars>>

\* The second call has returned: on a polygon update; return.
FbdWideReturned ==
    /\ fbd_pc = "call2"
    /\ fp_pc = "returned"
    /\ fbd_result' = IF fp_ret.polygon # None
                     THEN fbd_update(fbd_result, BUFFER_2400, radius_2_px)
                     ELSE fbd_result
    /\ fbd_pc' = "done"
    /\ fbd_raised' = Append(fbd_raised, fp_raised)
    /\ UNCHANGED <<fbd_polygons, radius_1_px, radius_2_px, fbd_meters_per_px>>
    /\ UNCHANGED fp_vars
    /\ UNCHANGED <<orch_vars, geo_vars, conc_vars, qual_vars, batch_vars>>

NextFbd ==
    \/ FbdStart
    \/ FbdNarrowReturned
    \/ FbdWideReturned

\* A call of _find_best_detection, with the calls of find_best_panel it makes.
SpecFbd == InitFbd /\ [][NextFbd \/ NextSel]_vars

\* ------------------------------------------------------------------ server._find_best_detection
\* The candidates list of find_best_panel after the first n items, when the
\* loop passes of the items in raised ended in the except clause.
RECURSIVE CandidatesUpTo(_, _, _, _, _)
CandidatesUpTo(items, n, radius, threshold, raised) ==
    IF n = 0 THEN <<>>
    ELSE CandidatesUpTo(items, n - 1, radius, threshold, raised) \o
         (IF n \in raised THEN <<>>
          ELSE Scored(items[n], n, Center, radius, threshold))

\* geometry.find_best_panel as a function: what a call returns.
find_best_panel(items, radius, threshold, raised) ==
    IF items = <<>> THEN NoReturn
    ELSE LET cands == CandidatesUpTo(items, Len(items), radius, threshold, raised)
         IN  IF cands = <<>> THEN NoReturn
             ELSE LET best == sort_by_score(cands)[1]
                  IN  [polygon |-> best.polygon, confidence |-> best.confidence,
                       overlap |-> best.overlap, item |-> best.item]

\* A two-stage selection that reports the wide buffer whichever call matched.
server_find_best_detection_reports_wide(items, r1, r2, mpp, raised) ==
    LET initial == FbdInitialResult(r2)
        narrow == find_best_panel(items, r1, MIN_OVERLAP_AREA, raised[1])
        wide == find_best_panel(items, r2, MIN_OVERLAP_AREA, raised[2])
        best == IF narrow.polygon # None THEN narrow ELSE wide
    IN  IF items = <<>> THEN initial
        ELSE IF best.polygon # None
        THEN [initial EXCEPT !.has_solar = TRUE,
                             !.buffer_sqft = BUFFER_2400,
                             !.area_sqm = PolyArea(best.polygon) * mpp * mpp,
                             !.confidence = best.confidence,
                             !.polygon = best.polygon,
                             !.radius_px = r2]
        ELSE initial

\* backend/server.py, _find_best_detection.  raised[k] is the set of items on
\* which the geometry library raises in the k-th call of find_best_panel.
server_find_best_detection(items, r1, r2, mpp, raised) ==
    LET initial == FbdInitialResult(r2)
        narrow == find_best_panel(items, r1, MIN_OVERLAP_AREA, raised[1])
        wide == find_best_panel(items, r2, MIN_OVERLAP_AREA, raised[2])
    IN  IF items = <<>> THEN initial
        ELSE IF narrow.polygon # None
        THEN [initial EXCEPT !.has_solar = TRUE,
                             !.buffer_sqft = BUFFER_1200,
                             !.area_sqm = PolyArea(narrow.polygon) * mpp * mpp,
                             !.confidence = narrow.confidence,
                             !.polygon = narrow.polygon,
                             !.radius_px = r1]
        ELSE IF wide.polygon # None
        THEN [initial EXCEPT !.has_solar = TRUE,
                             !.buffer_sqft = BUFFER_2400,
                             !.area_sqm = PolyArea(wide.polygon) * mpp * mpp,
                             !.confidence = wide.confidence,
                             !.polygon = wide.polygon,
                             !.radius_px = r2]
        ELSE initial

\* ------------------------------------------------------------------ resolution and radii: calls
\* The zoom levels, areas (sq.ft) and meters-per-pixel arguments of the model.
Zooms == {19, ZOOM_LEVEL, 21}
Scales == {1, MAP_SCALE}
Areas == {-BUFFER_1200, 0, BUFFER_1200, BUFFER_2400}
MppArgs == {-746, 0, 1, 746}

\* The calls of the model: the head of SolarDetector.detect (the lines from
\* calculate_meters_per_pixel to the call of _execute_pipeline), the geometry
\* lines of SolarDetectionPipeline._process_sample (from get_meters_per_pixel
\* to the call of _find_best_detection), and calls of the four functions.
GeoCalls ==
    {[fn |-> "detect", lat |-> lat, zoom |-> ZOOM_LEVEL, scale |-> MAP_SCALE,
      area_sqft |-> 0, mpp |-> 0] : lat \in Lats}
    \cup {[fn |-> "process_sample", lat |-> lat, zoom |-> ZOOM_LEVEL,
           scale |-> MAP_SCALE, area_sqft |-> 0, mpp |-> 0] : lat \in Lats}
    \cup {[fn |-> "calculate_radius_from_area_sqft", lat |-> 0, zoom |-> 0,
           scale |-> 0, area_sqft |-> a, mpp |-> m] : a \in Areas, m \in MppArgs}
    \cup {[fn |-> "buffer_radius_to_pixels", lat |-> lat, zoom |-> z,
           scale |-> MAP_SCALE, area_sqft |-> a, mpp |-> 0] :
              lat \in Lats, z \in Zooms, a \in Areas}
    \cup {[fn |-> f, lat |-> lat, zoom |-> z, scale |-> sc, area_sqft |-> 0,
           mpp |-> 0] :
              f \in {"get_meters_per_pixel", "calculate_meters_per_pixel"},
              lat \in Lats, z \in Zooms, sc \in Scales}

InitGeo ==
    /\ OrchIdle
    /\ FpIdle
    /\ FbdIdle
    /\ ConcIdle
    /\ QualIdle
    /\ BatchIdle
    /\ g_pc = "start"
    /\ g_in \in GeoCalls
    /\ g_mpp = 0
    /\ g_out = <<>>

\* detect: mpp = calculate_meters_per_pixel(lat, AppConfig.ZOOM_LEVEL, AppConfig.MAP_SCALE)
DetectMpp ==
    /\ g_pc = "start"
    /\ g_in.fn = "detect"
    /\ g_mpp' = calculate_meters_per_pixel(g_in.lat, g_in.zoom, g_in.scale)
    /\ g_pc' = "radii"
    /\ UNCHANGED <<g_in, g_out>>
    /\ UNCHANGED <<orch_vars, fp_vars, fbd_vars, conc_vars, qual_vars, batch_vars>>

\* detect: radius_1200 = ..., radius_2400 = calculate_radius_from_area_sqft(...),
\* then self._execute_pipeline(...) is entered; an exception leaves detect.
DetectRadii ==
    /\ g_pc = "radii"
    /\ LET radius_1200 == calculate_radius_from_area_sqft(BUFFER_1200, g_mpp)
           radius_2400 == calculate_radius_from_area_sqft(BUFFER_2400, g_mpp)
       IN  IF radius_1200.kind # "value"
           THEN g_out' = <<radius_1200>> /\ g_pc' = "raised"
           ELSE IF radius_2400.kind # "value"
           THEN g_out' = <<radius_1200, radius_2400>> /\ g_pc' = "raised"
           ELSE g_out' = <<radius_1200, radius_2400>> /\ g_pc' = "execute_pipeline"
    /\ UNCHANGED <<g_in, g_mpp>>
    /\ UNCHANGED <<orch_vars, fp_vars, fbd_vars, conc_vars, qual_vars, batch_vars>>

\* A call of calculate_radius_from_area_sqft(area_sqft, meters_per_pixel).
CallRadiusFromArea ==
    /\ g_pc = "start"
    /\ g_in.fn = "calculate_radius_from_area_sqft"
    /\ LET out == calculate_radius_from_area_sqft(g_in.area_sqft, g_in.mpp)
       IN  /\ g_out' = <<out>>
           /\ g_pc' = IF out.kind = "value" THEN "returned" ELSE "raised"
    /\ g_mpp' = g_in.mpp
    /\ UNCHANGED g_in
    /\ UNCHANGED <<orch_vars, fp_vars, fbd_vars, conc_vars, qual_vars, batch_vars>>

\* A call of buffer_radius_to_pixels(buffer_sqft, Config.SQFT_TO_SQM, lat, zoom, scale).
CallBufferRadius ==
    /\ g_pc = "start"
    /\ g_in.fn = "buffer_radius_to_pixels"
    /\ LET out == buffer_radius_to_pixels(g_in.area_sqft, SQFT_TO_SQM_E6,
                                          g_in.lat, g_in.zoom, g_in.scale)
       IN  /\ g_out' = <<out>>
           /\ g_pc' = IF out.kind = "value" THEN "returned" ELSE "raised"
    /\ g_mpp' = IF g_in.area_sqft < 0 THEN g_mpp
                ELSE get_meters_per_pixel(g_in.lat, g_in.zoom, g_in.scale)
    /\ UNCHANGED g_in
    /\ UNCHANGED <<orch_vars, fp_vars, fbd_vars, conc_vars, qual_vars, batch_vars>>

\* _process_sample: meters_per_px = get_meters_per_pixel(lat, Config.ZOOM_LEVEL,
\* Config.MAP_SCALE)
ProcessSampleMpp ==
    /\ g_pc = "start"
    /\ g_in.fn = "process_sample"
    /\ g_mpp' = get_meters_per_pixel(g_in.lat, g_in.zoom, g_in.scale)
    /\ g_pc' = "buffer_radii"
    /\ UNCHANGED <<g_in, g_out>>
    /\ UNCHANGED <<orch_vars, fp_vars, fbd_vars, conc_vars, qual_vars, batch_vars>>

\* _process_sample: radius_1_px = buffer_radius_to_pixels(BUFFER_RADIUS_1_SQFT, ...),
\* radius_2_px = buffer_radius_to_pixels(BUFFER_RADIUS_2_SQFT, ...), then
\* self._find_best_detection(...) is entered; an exception leaves _process_sample.
ProcessSampleRadii ==
    /\ g_pc = "buffer_radii"
    /\ LET radius_1 == buffer_radius_to_pixels(BUFFER_1200, SQFT_TO_SQM_E6,
                                               g_in.lat, g_in.zoom, g_in.scale)
           radius_2 == buffer_radius_to_pixels(BUFFER_2400, SQFT_TO_SQM_E6,
                                               g_in.lat, g_in.zoom, g_in.scale)
       IN  IF radius_1.kind # "value"
           THEN g_out' = <<radius_1>> /\ g_pc' = "raised"
           ELSE IF radius_2.kind # "value"
           THEN g_out' = <<radius_1, radius_2>> /\ g_pc' = "raised"
           ELSE g_out' = <<radius_1, radius_2>> /\ g_pc' = "find_best_detection"
    /\ UNCHANGED <<g_in, g_mpp>>
    /\ UNCHANGED <<orch_vars, fp_vars, fbd_vars, conc_vars, qual_vars, batch_vars>>

\* A call of get_meters_per_pixel(lat, zoom, scale).
CallGetMpp ==
    /\ g_pc = "start"
    /\ g_in.fn = "get_meters_per_pixel"
    /\ g_mpp' = get_meters_per_pixel(g_in.lat, g_in.zoom, g_in.scale)
    /\ g_pc' = "returned"
    /\ UNCHANGED <<g_in, g_out>>
    /\ UNCHANGED <<orch_vars, fp_vars, fbd_vars, conc_vars, qual_vars, batch_vars>>

\* A call of calculate_meters_per_pixel(lat, zoom, scale).
CallCalcMpp ==
    /\ g_pc = "start"
    /\ g_in.fn = "calculate_meters_per_pixel"
    /\ g_mpp' = calculate_meters_per_pixel(g_in.lat, g_in.zoom, g_in.scale)
    /\ g_pc' = "returned"
    /\ UNCHANGED <<g_in, g_out>>
    /\ UNCHANGED <<orch_vars, fp_vars, fbd_vars, conc_vars, qual_vars, batch_vars>>

NextGeo ==
    \/ DetectMpp
    \/ DetectRadii
    \/ ProcessSampleMpp
    \/ ProcessSampleRadii
    \/ CallRadiusFromArea
    \/ CallBufferRadius
    \/ CallGetMpp
    \/ CallCalcMpp

\* The calls of the resolution and radius functions.
SpecGeo == InitGeo /\ [][NextGeo]_vars

\* ------------------------------------------------------------------ concurrent invocations
\* Two invocations of _execute_pipeline on the one SolarDetector object.  An
\* invocation is a record of its arguments and locals: img (what the Detector
\* reports for the sample's image and for its enhanced variant), the radii,
\* boxes, confs, sat_boxes, sat_confs and result.  The SolarDetector object
\* itself (model, quality_checker, task) is only read.
Samples == {1, 2}

ConcDetLists ==
    {<<>>, <<Det(BoxIn, 90)>>, <<Det(BoxRing, 90)>>,
     <<Det(BoxFar, 50), Det(BoxClip, 50)>>}

ConcImages == [orig : ConcDetLists, sat : ConcDetLists]

\* The invocation at the entry of _execute_pipeline.
StartRun(img, rp) ==
    [pc |-> "predict", img |-> img, r1200 |-> rp[1], r2400 |-> rp[2],
     boxes |-> <<>>, confs |-> <<>>, sat_boxes |-> <<>>, sat_confs |-> <<>>,
     result |-> InitialResult(rp[2])]

\* The candidate lists as the stages of invocation r read them: its locals.
ViewOf(r) ==
    [boxes |-> r.boxes, confs |-> r.confs,
     sat_boxes |-> r.sat_boxes, sat_confs |-> r.sat_confs]

\* The candidate lists kept in attributes of the shared SolarDetector object:
\* an invocation reads what the other one stored, once that one has predicted.
SharedView(s) ==
    LET other == runs[3 - s]
    IN  IF other.pc # "predict"
        THEN ViewOf(other)
        ELSE ViewOf(runs[s])

\* The candidate lists invocation s reads: locals of _execute_pipeline.
Locals(s) == ViewOf(runs[s])

\* One stage of invocation r on the lists bs, cs.
StageStep(r, method, bs, cs, buf_sqft, radius, next) ==
    LET best_idx == find_best_match(bs, Center, radius)[1]
    IN  IF best_idx # -1
        THEN [r EXCEPT !.result = finalize_result(r.result, bs, cs, best_idx,
                                                  buf_sqft, radius, method),
                       !.pc = "done"]
        ELSE [r EXCEPT !.pc = next]

\* The next statement of _execute_pipeline in invocation r, which reads the
\* candidate lists v.
ExecStep(r, v) ==
    CASE r.pc = "predict" ->
            [r EXCEPT !.boxes = BoxesOf(r.img.orig),
                      !.confs = ConfsOf(r.img.orig),
                      !.result = [r.result EXCEPT !.all_boxes = BoxesOf(r.img.orig),
                                                  !.all_confs = ConfsOf(r.img.orig)],
                      !.pc = "stage1"]
      [] r.pc = "stage1" ->
            StageStep(r, "initial_1200", v.boxes, v.confs, BUFFER_1200, r.r1200, "enhance")
      [] r.pc = "enhance" ->
            [r EXCEPT !.pc = "predict_sat"]
      [] r.pc = "predict_sat" ->
            [r EXCEPT !.sat_boxes = BoxesOf(r.img.sat),
                      !.sat_confs = ConfsOf(r.img.sat),
                      !.pc = "stage2"]
      [] r.pc = "stage2" ->
            StageStep(r, "saturated_1200", v.sat_boxes, v.sat_confs, BUFFER_1200,
                      r.r1200, "stage3")
      [] r.pc = "stage3" ->
            StageStep(r, "initial_2400", v.boxes, v.confs, BUFFER_2400, r.r2400, "stage4")
      [] r.pc = "stage4" ->
            StageStep(r, "saturated_2400", v.sat_boxes, v.sat_confs, BUFFER_2400,
                      r.r2400, "exhausted")
      [] r.pc = "exhausted" ->
            [r EXCEPT !.result = [r.result EXCEPT
                          !.all_boxes = IF v.boxes # <<>> THEN v.boxes ELSE v.sat_boxes,
                          !.all_confs = IF v.confs # <<>> THEN v.confs ELSE v.sat_confs],
                      !.pc = "done"]

InitConc ==
    /\ OrchIdle
    /\ FpIdle
    /\ FbdIdle
    /\ GeoIdle
    /\ QualIdle
    /\ BatchIdle
    /\ \E rp \in RadiusPairs :
          runs \in [Samples -> {StartRun(img, rp) : img \in ConcImages}]

\* Invocation s executes its next statement.
ConcStep(s) ==
    /\ runs[s].pc # "done"
    /\ runs' = [runs EXCEPT ![s] = ExecStep(runs[s], Locals(s))]
    /\ UNCHANGED <<orch_vars, fp_vars, fbd_vars, geo_vars, qual_vars, batch_vars>>

NextConc == \E s \in DOMAIN runs : ConcStep(s)

\* Two invocations of _execute_pipeline, interleaved statement by statement.
SpecConc == InitConc /\ [][NextConc]_vars

\* ------------------------------------------------------------------ check_quality
\* An image is what the checks measure on it: sharp is the variance of the
\* Laplacian, mean and std are np.mean(gray) and np.std(gray), bright_pct is
\* the percentage of pixels above 225.  Only combinations an image can have: a
\* mean of 240 needs more than half of the pixels above 225, a mean of 252
\* more than five sixths, and a mean of 128 or less leaves none in the model.
QImages ==
    {m \in [loaded : {TRUE}, sharp : {50, 150}, mean : {20, 35, 128, 240, 252},
            std : {5, 20}, bright_pct : {0, 60, 80, 90}] :
        /\ (m.mean < 240 => m.bright_pct = 0)
        /\ (m.mean = 240 => m.bright_pct \in {60, 80})
        /\ (m.mean = 252 => m.bright_pct = 90)}
    \cup {NoImage}

QImpls == {"quality", "image_processor"}

InitQual ==
    /\ OrchIdle
    /\ FpIdle
    /\ FbdIdle
    /\ GeoIdle
    /\ ConcIdle
    /\ BatchIdle
    /\ q_pc = "start"
    /\ q_impl \in QImpls
    /\ q_img \in QImages
    /\ q_checks = <<>>
    /\ q_ret = NoVerdict

\* One check of check_quality: it is evaluated; if it fails the function
\* returns (status, reason), otherwise it goes on at next.
QCheck(impl, at, check, fails, status, reason, next) ==
    /\ q_impl = impl
    /\ q_pc = at
    /\ q_checks' = Append(q_checks, check)
    /\ IF fails
       THEN /\ q_ret' = [status |-> status, reason |-> reason]
            /\ q_pc' = "returned"
       ELSE /\ q_ret' = q_ret
            /\ q_pc' = next
    /\ UNCHANGED <<q_impl, q_img>>
    /\ UNCHANGED <<orch_vars, fp_vars, fbd_vars, geo_vars, conc_vars, batch_vars>>

\* All checks passed: return (status, reason).
QPass(impl, at, status, reason) ==
    /\ q_impl = impl
    /\ q_pc = at
    /\ q_ret' = [status |-> status, reason |-> reason]
    /\ q_pc' = "returned"
    /\ UNCHANGED <<q_impl, q_img, q_checks>>
    /\ UNCHANGED <<orch_vars, fp_vars, fbd_vars, geo_vars, conc_vars, batch_vars>>

\* quality.py: if image is None or image.size == 0: return "NOT_VERIFIABLE", ...
QualityLoaded ==
    QCheck("quality", "start", "loaded", ~q_img.loaded,
           "NOT_VERIFIABLE", "Image load failed or empty", "blur")

\* quality.py: if laplacian_var < self.blur_threshold
QualityBlur ==
    QCheck("quality", "blur", "sharpness", q_img.sharp < BLUR_THRESHOLD,
           "NOT_VERIFIABLE", "Image too blurry", "dark")

\* quality.py: if mean_brightness < self.min_brightness
QualityDark ==
    QCheck("quality", "dark", "too_dark", q_img.mean < MIN_BRIGHTNESS,
           "NOT_VERIFIABLE", "Image too dark", "bright")

\* quality.py: if mean_brightness > self.max_brightness
QualityBright ==
    QCheck("quality", "bright", "too_bright", q_img.mean > MAX_BRIGHTNESS,
           "NOT_VERIFIABLE", "Image too bright/cloudy", "variance")

\* quality.py: if np.std(gray) < 10
QualityVariance ==
    QCheck("quality", "variance", "contrast", q_img.std < MIN_STD,
           "NOT_VERIFIABLE", "Image lacks detail/contrast", "pass")

\* quality.py: return "VERIFIABLE", "Quality OK"
QualityPass == QPass("quality", "pass", "VERIFIABLE", "Quality OK")

\* image_processor.py: img = cv2.imread(...); if img is None: return False, ...
ProcLoaded ==
    QCheck("image_processor", "start", "loaded", ~q_img.loaded,
           "False", "Failed to load image", "dark")

\* image_processor.py: if mean_brightness < self.brightness_low
ProcDark ==
    QCheck("image_processor", "dark", "too_dark",
           q_img.mean < BRIGHTNESS_THRESHOLD_LOW,
           "False", "Image too dark", "bright")

\* image_processor.py: if bright_ratio > self.cloud_threshold
ProcCloud ==
    QCheck("image_processor", "bright", "too_bright",
           q_img.bright_pct > CLOUD_THRESHOLD_PCT,
           "False", "Heavy cloud cover", "variance")

\* image_processor.py: if variance < self.min_variance, with variance = std ** 2
ProcVariance ==
    QCheck("image_processor", "variance", "contrast",
           q_img.std * q_img.std < MIN_IMAGE_VARIANCE,
           "False", "Low image detail", "pass")

\* image_processor.py: return True, "Good quality"
ProcPass == QPass("image_processor", "pass", "True", "Good quality")

NextQual ==
    \/ QualityLoaded
    \/ QualityBlur
    \/ QualityDark
    \/ QualityBright
    \/ QualityVariance
    \/ QualityPass
    \/ ProcLoaded
    \/ ProcDark
    \/ ProcCloud
    \/ ProcVariance
    \/ ProcPass

\* A call of check_quality of either module.
SpecQual == InitQual /\ [][NextQual]_vars

\* ------------------------------------------------------------------ batch run
\* The rows of an input file, each with what its processing will meet: the
\* outcome of the HTTP request of download_image and, for a downloaded image,
\* the outcome of the Detector.
MaxSamples == 3

SampleIdAt(i) == 1000 - i

DownloadFailures == {"http_error", "timeout", "exception"}

DetectOutcomes == {"no_panel", "panel_in_buffer", "raises"}

SampleOutcomes ==
    {[download |-> "ok", detect |-> d] : d \in DetectOutcomes}
    \cup {[download |-> f, detect |-> "not_called"] : f \in DownloadFailures}

BatchRows(f) ==
    [i \in DOMAIN f |->
        [sample_id |-> SampleIdAt(i), download |-> f[i].download, detect |-> f[i].detect]]

BatchInputs ==
    UNION {{BatchRows(f) : f \in [1..n -> SampleOutcomes]} : n \in 0..MaxSamples}

\* GoogleMapsClient.download_image: the path of the written file, here the
\* tuple naming the sample, or None, here <<>>, for a status other than 200, a
\* timeout or any other exception.
download_image(row) ==
    IF row.download = "ok" THEN <<row.sample_id>> ELSE <<>>

\* SolarPanelDetector.detect: the polygons of the image, or a failed call.
detect(row) == row.detect

\* The output dictionary of _process_sample, as far as the run looks at it.
process_sample_output(row) ==
    [sample_id |-> row.sample_id, has_solar |-> detect(row) = "panel_in_buffer"]

InitBatch ==
    /\ OrchIdle
    /\ FpIdle
    /\ FbdIdle
    /\ GeoIdle
    /\ ConcIdle
    /\ QualIdle
    /\ b_pc = "load_input"
    /\ b_input_ok \in BOOLEAN
    /\ b_samples \in BatchInputs
    /\ (~b_input_ok => b_samples = <<>>)
    /\ b_i = 0
    /\ b_results = <<>>
    /\ b_saved = <<>>
    /\ b_skipped = <<>>

BatchFrame == UNCHANGED <<orch_vars, fp_vars, fbd_vars, geo_vars, conc_vars, qual_vars>>

\* run: df = self._load_input(input_path); if df is None: return
BatchLoadInputFails ==
    /\ b_pc = "load_input"
    /\ ~b_input_ok
    /\ b_pc' = "returned"
    /\ UNCHANGED <<b_input_ok, b_samples, b_i, b_results, b_saved, b_skipped>>
    /\ BatchFrame

\* run: self.detector.initialize(); results = []; the loop starts at the first row
BatchInitialize ==
    /\ b_pc = "load_input"
    /\ b_input_ok
    /\ b_pc' = "loop"
    /\ b_i' = 1
    /\ b_results' = <<>>
    /\ UNCHANGED <<b_input_ok, b_samples, b_saved, b_skipped>>
    /\ BatchFrame

\* A variant of BatchDownloadFails that leaves the loop at a failed download.
BatchDownloadFailsStopsRun ==
    /\ b_pc = "loop"
    /\ b_i <= Len(b_samples)
    /\ download_image(b_samples[b_i]) = <<>>
    /\ b_skipped' = Append(b_skipped, b_samples[b_i].sample_id)
    /\ b_i' = Len(b_samples) + 1
    /\ UNCHANGED <<b_pc, b_input_ok, b_samples, b_results, b_saved>>
    /\ BatchFrame

\* _process_sample: if not image_path: logger.warning("Skipped ..."); return None
\* run: if result: is false, nothing is appended and the loop goes on.
BatchDownloadFails ==
    /\ b_pc = "loop"
    /\ b_i <= Len(b_samples)
    /\ download_image(b_samples[b_i]) = <<>>
    /\ b_skipped' = Append(b_skipped, b_samples[b_i].sample_id)
    /\ b_i' = b_i + 1
    /\ UNCHANGED <<b_pc, b_input_ok, b_samples, b_results, b_saved>>
    /\ BatchFrame

\* _process_sample: the image is on disk; its quality is checked and the
\* Detector is called next.
BatchDownloaded ==
    /\ b_pc = "loop"
    /\ b_i <= Len(b_samples)
    /\ download_image(b_samples[b_i]) # <<>>
    /\ b_pc' = "detect"
    /\ UNCHANGED <<b_input_ok, b_samples, b_i, b_results, b_saved, b_skipped>>
    /\ BatchFrame

\* _process_sample: all_polygons = self.detector.detect(image_path) raises;
\* neither _process_sample nor run catches anything, so the run ends there.
BatchDetectRaises ==
    /\ b_pc = "detect"
    /\ detect(b_samples[b_i]) = "raises"
    /\ b_pc' = "aborted"
    /\ UNCHANGED <<b_input_ok, b_samples, b_i, b_results, b_saved, b_skipped>>
    /\ BatchFrame

\* _process_sample: the rest of the function builds and returns output;
\* run: if result: results.append(result)
BatchProcessed ==
    /\ b_pc = "detect"
    /\ detect(b_samples[b_i]) # "raises"
    /\ b_results' = Append(b_results, process_sample_output(b_samples[b_i]))
    /\ b_i' = b_i + 1
    /\ b_pc' = "loop"
    /\ UNCHANGED <<b_input_ok, b_samples, b_saved, b_skipped>>
    /\ BatchFrame

\* run: after the last row, self._save_results(results) writes the combined file.
BatchSave ==
    /\ b_pc = "loop"
    /\ b_i > Len(b_samples)
    /\ b_saved' = Append(b_saved, b_results)
    /\ b_pc' = "saved"
    /\ UNCHANGED <<b_input_ok, b_samples, b_i, b_results, b_skipped>>
    /\ BatchFrame

NextBatch ==
    \/ BatchLoadInputFails
    \/ BatchInitialize
    \/ BatchDownloadFails
    \/ BatchDownloaded
    \/ BatchDetectRaises
    \/ BatchProcessed
    \/ BatchSave

\* A batch run of SolarDetectionPipeline.
SpecBatch == InitBatch /\ [][NextBatch]_vars

\* The selectors: a run of _execute_pipeline, a call of find_best_panel, or a
\* call of _find_best_detection.
SpecAll ==
    (Init \/ InitSel \/ InitFbd) /\ [][Next \/ NextSel \/ NextFbd]_vars

\* ================================================================== claims
\* The stages in priority order.  The code's method labels stand for the
\* states PRIMARY_NARROW, ENHANCED_NARROW, PRIMARY_WIDE, ENHANCED_WIDE.
StageOrder == <<"initial_1200", "saturated_1200", "initial_2400", "saturated_2400">>

IsPrefix(s, t) == Len(s) <= Len(t) /\ \A i \in 1..Len(s) : s[i] = t[i]

\* Some box of bs has a positive overlap with the disk of that radius.
HasOverlap(bs, radius) ==
    \E i \in 1..Len(bs) : calculate_intersection_area(bs[i], Center, radius) > 0

\* The candidate set and the buffer of stage k.
StageBoxes(k) == IF k \in {1, 3} THEN boxes ELSE sat_boxes
StageRadius(k) == IF k \in {1, 2} THEN r1200 ELSE r2400
StageBuffer(k) == IF k \in {1, 2} THEN BUFFER_1200 ELSE BUFFER_2400
StageMatches(k) == HasOverlap(StageBoxes(k), StageRadius(k))

\* C1: the stages are evaluated in the order initial_1200, saturated_1200,
\* initial_2400, saturated_2400, and the method of a finished run is the first
\* stage in this order whose candidate set overlaps its buffer ("none" when no
\* stage's does), reported with that stage's buffer and radius.
C1_StageOrder ==
    /\ IsPrefix(evals, StageOrder)
    /\ pc = "done" =>
          \/ /\ result.method = "none"
             /\ \A k \in 1..4 : ~StageMatches(k)
          \/ \E k \in 1..4 :
                /\ result.method = StageOrder[k]
                /\ StageMatches(k)
                /\ \A j \in 1..(k - 1) : ~StageMatches(j)
                /\ result.radius = StageRadius(k)
                /\ result.buffer_sqft = StageBuffer(k)

\* A run that ends at the third stage although the fourth would match too.
C1_Witness ==
    /\ pc = "done"
    /\ result.method = "initial_2400"
    /\ HasOverlap(sat_boxes, r2400)

\* C2: once a stage has matched the run is over with that stage's method as
\* the last one evaluated, nothing is invoked or evaluated afterwards, and a
\* match at initial_1200 leaves the Enhancer and the second Detector call
\* uninvoked.
C2_ShortCircuit ==
    /\ [](result.has_solar =>
            /\ pc \in {"done", "responded"}
            /\ evals # <<>>
            /\ evals[Len(evals)] = result.method
            /\ (result.method = "initial_1200" =>
                    calls = [det_orig |-> 1, det_sat |-> 0, enh |-> 0]))
    /\ [][result.has_solar => UNCHANGED <<calls, evals, result>>]_vars

C2_Witness ==
    /\ pc = "done"
    /\ result.method = "initial_1200"
    /\ calls.enh = 0
    /\ calls.det_sat = 0

\* C3: the Detector runs at most once per image variant, so at most twice per
\* sample, also when all four stages are evaluated; the wide stages select
\* from the candidate sets the narrow stages' Detector calls produced.
C3_DetectorOncePerVariant ==
    /\ calls.det_orig <= 1
    /\ calls.det_sat <= 1
    /\ Len(evals) <= 4
    /\ (Len(evals) >= 3 => calls.det_orig = 1 /\ calls.det_sat = 1)
    /\ (pc = "done" /\ result.method = "initial_2400" =>
            result.all_boxes = boxes /\ result.all_confs = confs)
    /\ (pc = "done" /\ result.method = "saturated_2400" =>
            result.all_boxes = sat_boxes /\ result.all_confs = sat_confs)

C3_Witness ==
    /\ pc = "done"
    /\ Len(evals) = 4
    /\ result.method = "saturated_2400"
    /\ calls.det_orig = 1
    /\ calls.det_sat = 1

\* C4: in a final result no box is selected iff no stage's candidate set
\* overlaps its buffer; then the method is "none" and the confidence 0; a
\* selected box comes with one of the four stage methods.
C4_NoneIffNoMatch ==
    pc = "done" =>
        /\ (result.selected_idx = -1) <=> (\A k \in 1..4 : ~StageMatches(k))
        /\ (result.selected_idx = -1) <=> ~result.has_solar
        /\ (result.selected_idx = -1) <=> (result.bbox = NoBox)
        /\ (result.selected_idx = -1 =>
                result.method = "none" /\ result.confidence = 0)
        /\ (result.selected_idx # -1 =>
                /\ result.method \in {StageOrder[k] : k \in 1..4}
                /\ result.confidence > 0)

\* A run with detections in both variants and no match.
C4_Witness ==
    /\ pc = "done"
    /\ result.selected_idx = -1
    /\ boxes # <<>>
    /\ sat_boxes # <<>>

\* C5: a run that ends without a match reports nothing selected, method
\* "none", and as its pool the original image's detections when there are
\* any, otherwise the enhanced image's; so the pool is empty only when both
\* are.
C5_ExhaustedPool ==
    (pc = "done" /\ ~result.has_solar) =>
        /\ result.selected_idx = -1
        /\ result.method = "none"
        /\ result.all_boxes = (IF boxes # <<>> THEN boxes ELSE sat_boxes)
        /\ result.all_confs = (IF boxes # <<>> THEN confs ELSE sat_confs)
        /\ (result.all_boxes = <<>> => boxes = <<>> /\ sat_boxes = <<>>)

\* No match, and the two variants' detections differ.
C5_Witness ==
    /\ pc = "done"
    /\ ~result.has_solar
    /\ boxes # <<>>
    /\ sat_boxes # <<>>
    /\ boxes # sat_boxes
    /\ result.all_boxes = boxes

\* C6: a Detector or Enhancer failure does not abort the run: the run goes on
\* to the next stage and ends with a result.
C6_FailureIsNonFatal == pc # "aborted"

\* ------------------------------------------------------------------ selector claims
\* Item i of polygons passes the discard rules: its processing raised
\* nothing, it intersects the disk, its overlap is not below the threshold,
\* its centroid is within 1.5 radii.
Survives(i) ==
    LET poly == polygons[i].poly
    IN  /\ i \notin fp_raised
        /\ Intersects(poly, Center, buffer_radius_px)
        /\ OverlapArea(poly, Center, buffer_radius_px) >= min_overlap
        /\ ~CentroidTooFar(poly, Center, buffer_radius_px)

Survivors == {i \in 1..Len(polygons) : Survives(i)}

\* overlapArea * (1 + min(polygonArea / 10000, 0.5)) * confidence of item i,
\* multiplied by 10^6 to stay in the integers.
ClaimScore(i) ==
    LET poly == polygons[i].poly
        area == PolyArea(poly)
    IN  OverlapArea(poly, Center, buffer_radius_px)
            * (10000 + (IF area <= 5000 THEN area ELSE 5000))
            * polygons[i].conf

\* The overlap of box i of the reported pool with the reported buffer.
PoolOverlap(i) ==
    calculate_intersection_area(result.all_boxes[i], Center, result.radius)

\* C7: when some item survives the discard rules, find_best_panel returns a
\* surviving item (its polygon and its confidence), and no surviving item has
\* a higher score.
C7_MaxScore ==
    (fp_pc = "returned" /\ Survivors # {}) =>
        /\ fp_ret.item \in Survivors
        /\ fp_ret.polygon = polygons[fp_ret.item].poly
        /\ fp_ret.confidence = polygons[fp_ret.item].conf
        /\ \A j \in Survivors : ClaimScore(j) <= ClaimScore(fp_ret.item)

\* Two survivors of different score, the better one second in the input.
C7_Witness ==
    /\ fp_pc = "returned"
    /\ {1, 2} \subseteq Survivors
    /\ ClaimScore(1) < ClaimScore(2)
    /\ fp_ret.item = 2

\* C8: among the survivors of maximal score find_best_panel returns the one
\* earliest in the input, and among the boxes of maximal overlap
\* _find_best_match selects the one earliest in the list; the returned item
\* is thereby a function of the input list.
C8_TieBreakEarliest ==
    /\ (fp_pc = "returned" /\ Survivors # {}) =>
          /\ fp_ret.item \in Survivors
          /\ \A j \in Survivors :
                \/ ClaimScore(j) < ClaimScore(fp_ret.item)
                \/ ClaimScore(j) = ClaimScore(fp_ret.item) /\ fp_ret.item <= j
    /\ (pc = "done" /\ result.has_solar) =>
          /\ result.selected_idx + 1 \in 1..Len(result.all_boxes)
          /\ \A j \in 1..Len(result.all_boxes) :
                \/ PoolOverlap(j) < PoolOverlap(result.selected_idx + 1)
                \/ /\ PoolOverlap(j) = PoolOverlap(result.selected_idx + 1)
                   /\ result.selected_idx + 1 <= j

\* Two different polygons tie at the maximal score; the first is returned.
C8_Witness ==
    /\ fp_pc = "returned"
    /\ {1, 2} \subseteq Survivors
    /\ polygons[1].poly # polygons[2].poly
    /\ ClaimScore(1) = ClaimScore(2)
    /\ ClaimScore(1) > 0
    /\ fp_ret.polygon = polygons[1].poly

\* C9: a candidate whose centroid is farther than 1.5 radii from the buffer
\* centre is never the selected one, in find_best_panel and in the stages of
\* _execute_pipeline.
C9_CentroidRejection ==
    /\ (fp_pc = "returned" /\ fp_ret.polygon # None) =>
          ~CentroidTooFar(fp_ret.polygon, Center, buffer_radius_px)
    /\ (pc = "done" /\ result.has_solar) =>
          ~CentroidTooFar(result.bbox, Center, result.radius)

\* find_best_panel alone never returns a polygon with so far a centroid.
FindBestPanelRejectsFarCentroid ==
    (fp_pc = "returned" /\ fp_ret.polygon # None) =>
        ~CentroidTooFar(fp_ret.polygon, Center, buffer_radius_px)

\* C10: the selected candidate's overlap with the buffer disk is never below
\* the minimum overlap area, in find_best_panel (its min_overlap argument) and
\* in the stages of _execute_pipeline (MIN_OVERLAP_AREA).
C10_MinOverlap ==
    /\ (fp_pc = "returned" /\ fp_ret.polygon # None) =>
          /\ fp_ret.overlap >= min_overlap
          /\ fp_ret.overlap = OverlapArea(fp_ret.polygon, Center, buffer_radius_px)
    /\ (pc = "done" /\ result.has_solar) =>
          calculate_intersection_area(result.bbox, Center, result.radius)
              >= MIN_OVERLAP_AREA

\* find_best_panel alone never returns an overlap below its threshold.
FindBestPanelKeepsMinOverlap ==
    (fp_pc = "returned" /\ fp_ret.polygon # None) =>
        /\ fp_ret.overlap >= min_overlap
        /\ fp_ret.overlap = OverlapArea(fp_ret.polygon, Center, buffer_radius_px)

\* ------------------------------------------------------------------ disjoint candidates
\* Item i of polygons is disjoint from the buffer disk.
ItemDisjoint(i) == ~Intersects(polygons[i].poly, Center, buffer_radius_px)

\* The items find_best_panel has scored: those with an entry in candidates.
ScoredItems == {candidates[k].item : k \in 1..Len(candidates)}

\* Box i of bs is disjoint from the disk of that radius.
BoxDisjoint(bs, i, radius) == ~Intersects(bs[i], Center, radius)

AllBoxesDisjoint(bs, radius) == \A i \in 1..Len(bs) : BoxDisjoint(bs, i, radius)

\* C11: a candidate disjoint from the buffer disk has overlap 0 with it and
\* gets no score (find_best_panel) and is not selected (_find_best_match);
\* when every candidate is disjoint from the disk, find_best_panel returns
\* (None, 0, 0), and a run all of whose stages see only disjoint boxes ends
\* without a match.
C11_DisjointExcluded ==
    /\ \A i \in 1..Len(polygons) :
          ItemDisjoint(i) =>
              /\ OverlapArea(polygons[i].poly, Center, buffer_radius_px) = 0
              /\ i \notin ScoredItems
              /\ fp_ret.item # i
    /\ (fp_pc = "returned" /\ \A i \in 1..Len(polygons) : ItemDisjoint(i)) =>
          fp_ret = NoReturn
    /\ \A k \in 1..4 : \A i \in 1..Len(StageBoxes(k)) :
          BoxDisjoint(StageBoxes(k), i, StageRadius(k)) =>
              calculate_intersection_area(StageBoxes(k)[i], Center, StageRadius(k)) = 0
    /\ (pc = "done" /\ result.has_solar) =>
          ~BoxDisjoint(result.all_boxes, result.selected_idx + 1, result.radius)
    /\ (pc = "done" /\ \A k \in 1..4 : AllBoxesDisjoint(StageBoxes(k), StageRadius(k))) =>
          ~result.has_solar /\ result.selected_idx = -1

\* With threshold 0 the first item is disjoint from the disk although its
\* centroid is within 1.5 radii, and the second item is returned.
C11_Witness ==
    /\ fp_pc = "returned"
    /\ Len(polygons) = 2
    /\ min_overlap = 0
    /\ ItemDisjoint(1)
    /\ ~CentroidTooFar(polygons[1].poly, Center, buffer_radius_px)
    /\ fp_ret.item = 2

\* ------------------------------------------------------------------ degenerate polygons
\* C12: the polygon find_best_panel returns, whatever the radius and the
\* min_overlap argument (0 included), and the box a stage of
\* _execute_pipeline selects, have a positive area.
C12_PositiveAreaSelected ==
    /\ (fp_pc = "returned" /\ fp_ret.polygon # None) =>
          PolyArea(fp_ret.polygon) > 0
    /\ (pc = "done" /\ result.has_solar) =>
          PolyArea(result.bbox) > 0

\* _find_best_match alone never selects a box without area.
FindBestMatchSelectsPositiveArea ==
    (pc = "done" /\ result.has_solar) => PolyArea(result.bbox) > 0

\* With a positive min_overlap find_best_panel returns no polygon without area.
FindBestPanelPositiveAreaAboveZero ==
    (fp_pc = "returned" /\ fp_ret.polygon # None /\ min_overlap > 0) =>
        PolyArea(fp_ret.polygon) > 0

\* ------------------------------------------------------------------ empty input
\* C13: when the Detector reports nothing for the original and for the
\* enhanced image, the run ends with has_solar false, confidence 0, method
\* "none", no box, nothing selected and an empty pool, and so does the
\* response; find_best_panel returns (None, 0, 0) on an empty list without
\* scoring anything; _find_best_detection returns its initial result on an
\* empty list.
C13_EmptyInput ==
    /\ (pc \in {"done", "responded"} /\ boxes = <<>> /\ sat_boxes = <<>>) =>
          /\ result.has_solar = FALSE
          /\ result.confidence = 0
          /\ result.method = "none"
          /\ result.bbox = <<>>
          /\ result.selected_idx = -1
          /\ result.all_boxes = <<>>
          /\ result.all_confs = <<>>
    /\ (pc = "responded" /\ boxes = <<>> /\ sat_boxes = <<>>) =>
          /\ response.has_solar = FALSE
          /\ response.confidence = 0
          /\ response.detection_method = "none"
          /\ response.bbox_or_mask = <<>>
    /\ (fp_pc = "returned" /\ polygons = <<>>) =>
          /\ fp_ret.polygon = None
          /\ fp_ret.confidence = 0
          /\ fp_ret.overlap = 0
          /\ candidates = <<>>
    /\ (fbd_pc = "done" /\ fbd_polygons = <<>>) =>
          /\ fbd_result.has_solar = FALSE
          /\ fbd_result.confidence = 0
          /\ fbd_result.polygon = None

\* All four stages were evaluated on empty candidate sets.
C13_Witness ==
    /\ pc = "responded"
    /\ calls.det_orig = 1 /\ calls.det_sat = 1
    /\ boxes = <<>> /\ sat_boxes = <<>>
    /\ Len(evals) = 4

\* find_best_panel has returned from a call with an empty list.
FindBestPanelEmptyReached == fp_pc = "returned" /\ polygons = <<>>

\* _find_best_detection has returned from a call with an empty list.
FindBestDetectionEmptyReached == fbd_pc = "done" /\ fbd_polygons = <<>>

\* ------------------------------------------------------------------ resolution and radius errors
\* C14: at a polar latitude the computation of the meters per pixel in
\* detect fails: detect is left with an exception there, no radius is
\* computed and _execute_pipeline is not entered.
C14_PolarLatitudeFails ==
    (g_in.fn = "detect" /\ Polar(g_in.lat) /\ g_pc # "start") =>
        /\ g_pc = "raised"
        /\ g_out = <<>>

\* The meters per pixel or the area handed to the radius computation is out
\* of range: metersPerPixel <= 0 or area < 0.
RadiusArgsOutOfRange == g_mpp <= 0 \/ g_in.area_sqft < 0

\* C15: calculate_radius_from_area_sqft and buffer_radius_to_pixels raise
\* whenever the meters per pixel are <= 0 or the area is negative: they return
\* no radius then.
C15_RadiusRejectsBadInput ==
    (/\ g_in.fn \in {"calculate_radius_from_area_sqft", "buffer_radius_to_pixels"}
     /\ g_pc # "start"
     /\ RadiusArgsOutOfRange) =>
        /\ g_pc = "raised"
        /\ g_out[1].kind # "value"

\* What does hold: a negative area and meters per pixel of exactly 0 raise,
\* and every returned radius has the sign of the meters per pixel.
RadiusRaisesOnNegativeAreaOrZero ==
    (/\ g_in.fn \in {"calculate_radius_from_area_sqft", "buffer_radius_to_pixels"}
     /\ g_pc # "start") =>
        /\ (g_in.area_sqft < 0 => g_pc = "raised" /\ g_out[1].kind = "ValueError")
        /\ (g_in.area_sqft >= 0 /\ g_mpp = 0 =>
                g_pc = "raised" /\ g_out[1].kind = "ZeroDivisionError")
        /\ (g_pc = "returned" /\ g_in.area_sqft > 0 =>
                Sign(g_out[1].value) = Sign(g_mpp))

\* ------------------------------------------------------------------ invalid polygons
\* Item i of polygons is an invalid polygon, or its processing raised.
InvalidOrRaised(i) == ~IsValid(polygons[i].poly) \/ i \in fp_raised

\* C16: an item whose polygon is invalid, or whose processing raised, gets no
\* score and is not returned; the selection goes on: when other items survive
\* the discard rules, the best of them is returned; the item stays in the
\* list the caller keeps as its pool.
C16_InvalidDiscarded ==
    /\ \A i \in 1..Len(polygons) :
          InvalidOrRaised(i) => i \notin ScoredItems /\ fp_ret.item # i
    /\ (fp_pc = "returned" /\ Survivors \ {i \in Survivors : InvalidOrRaised(i)} # {}) =>
          /\ fp_ret.item \in Survivors
          /\ ~InvalidOrRaised(fp_ret.item)
          /\ \A j \in Survivors : ClaimScore(j) <= ClaimScore(fp_ret.item)

\* What does hold: an item whose processing raised gets no score, and the
\* best of the items that survive is returned all the same.
FindBestPanelSkipsRaisingItem ==
    /\ \A i \in fp_raised : i \notin ScoredItems /\ fp_ret.item # i
    /\ (fp_pc = "returned" /\ Survivors # {}) =>
          /\ fp_ret.item \in Survivors
          /\ \A j \in Survivors : ClaimScore(j) <= ClaimScore(fp_ret.item)

\* The first item raised and the second one is returned.
FindBestPanelRaisedAndWentOn ==
    /\ fp_pc = "returned"
    /\ 1 \in fp_raised
    /\ fp_ret.item = 2

\* ------------------------------------------------------------------ quality verdict
StageConfs(k) == IF k \in {1, 3} THEN confs ELSE sat_confs

\* The first stage, in priority order, whose candidate set overlaps its
\* buffer; 0 when none does.
FirstMatchingStage ==
    IF \E k \in 1..4 : StageMatches(k)
    THEN CHOOSE k \in 1..4 : StageMatches(k) /\ \A j \in 1..(k - 1) : ~StageMatches(j)
    ELSE 0

\* The selection as a function of the candidates and the buffers alone: the
\* box of largest overlap (the earliest of them) of the first matching stage.
SelectionOf(k) ==
    IF k = 0
    THEN [has_solar |-> FALSE, confidence |-> 0, bbox |-> NoBox,
          buffer_sqft |-> BUFFER_2400, radius |-> r2400, method |-> "none",
          selected_idx |-> -1]
    ELSE LET idx == CHOOSE i \in 1..Len(StageBoxes(k)) :
                       \A j \in 1..Len(StageBoxes(k)) :
                          LET oi == calculate_intersection_area(
                                        StageBoxes(k)[i], Center, StageRadius(k))
                              oj == calculate_intersection_area(
                                        StageBoxes(k)[j], Center, StageRadius(k))
                          IN  oj < oi \/ (oj = oi /\ i <= j)
         IN  [has_solar |-> TRUE, confidence |-> StageConfs(k)[idx],
              bbox |-> StageBoxes(k)[idx], buffer_sqft |-> StageBuffer(k),
              radius |-> StageRadius(k), method |-> StageOrder[k],
              selected_idx |-> idx - 1]

\* C17: the outcome of the quality check does not reach the selection: the
\* selected box, its confidence, the buffer, the radius and the method of a
\* finished run are the function SelectionOf of the candidates and buffers,
\* in which the verdict does not occur, and so are the stages evaluated; the
\* response carries that selection and, unchanged, the verdict.
C17_QualityNonInterference ==
    /\ pc \in {"done", "responded"} =>
          LET sel == SelectionOf(FirstMatchingStage)
          IN  /\ \A f \in DOMAIN sel : result[f] = sel[f]
              /\ evals = SubSeq(StageOrder, 1,
                     IF FirstMatchingStage = 0 THEN 4 ELSE FirstMatchingStage)
    /\ pc = "responded" =>
          LET sel == SelectionOf(FirstMatchingStage)
          IN  /\ response.has_solar = sel.has_solar
              /\ response.confidence = sel.confidence
              /\ response.bbox_or_mask = sel.bbox
              /\ response.buffer_radius_sqft = sel.buffer_sqft
              /\ response.detection_method = sel.method
              /\ response.qc_status = qc.status
              /\ response.qc_reason = qc.reason

\* A box is selected at the first stage on an image that is not verifiable.
C17_Witness ==
    /\ pc = "responded"
    /\ qc.status = "NOT_VERIFIABLE"
    /\ response.qc_status = "NOT_VERIFIABLE"
    /\ response.has_solar
    /\ response.detection_method = "initial_1200"

\* ------------------------------------------------------------------ termination
\* C19: no stage is evaluated twice, at most four selections are evaluated,
\* and a run that can take no further step has ended with a match or with the
\* exhausted result, its response returned.
C19_NoRetryAndTermination ==
    /\ \A i, j \in 1..Len(evals) : i # j => evals[i] # evals[j]
    /\ Len(evals) <= 4
    /\ (pc \notin {"idle", "error_returned"} /\ ~ENABLED Next) =>
          /\ pc = "responded"
          /\ (result.has_solar \/ Len(evals) = 4)

\* What does hold: no stage is evaluated twice and a run never evaluates
\* more than four selections.
NoStageEvaluatedTwice ==
    /\ \A i, j \in 1..Len(evals) : i # j => evals[i] # evals[j]
    /\ Len(evals) <= 4
    /\ calls.enh <= 1

\* ------------------------------------------------------------------ confidence
\* C20: of two surviving candidates of the same geometry the one of higher
\* confidence is selected before the other: find_best_panel does not return
\* an item when an item with the same polygon and a higher confidence
\* survives, and a stage of _execute_pipeline does not select a box when
\* the same box was reported with a higher confidence.
C20_HigherConfidenceWins ==
    /\ (fp_pc = "returned" /\ fp_ret.polygon # None) =>
          \A j \in Survivors :
              (/\ polygons[j].poly = fp_ret.polygon
               /\ OverlapArea(fp_ret.polygon, Center, buffer_radius_px) > 0) =>
                  polygons[j].conf <= fp_ret.confidence
    /\ (pc = "done" /\ result.has_solar) =>
          \A j \in 1..Len(result.all_boxes) :
              result.all_boxes[j] = result.bbox =>
                  result.all_confs[j] <= result.confidence

\* find_best_panel alone: the score grows with the confidence, and the
\* higher confidence of two items with the same polygon wins.
FindBestPanelHigherConfidenceWins ==
    /\ \A i, j \in Survivors :
          (/\ polygons[i].poly = polygons[j].poly
           /\ OverlapArea(polygons[i].poly, Center, buffer_radius_px) > 0
           /\ polygons[i].conf < polygons[j].conf) =>
              ClaimScore(i) < ClaimScore(j)
    /\ (fp_pc = "returned" /\ fp_ret.polygon # None) =>
          \A j \in Survivors :
              (/\ polygons[j].poly = fp_ret.polygon
               /\ OverlapArea(fp_ret.polygon, Center, buffer_radius_px) > 0) =>
                  polygons[j].conf <= fp_ret.confidence

\* The same polygon twice, the higher confidence second, and it is returned.
FindBestPanelHigherConfidenceReached ==
    /\ fp_pc = "returned"
    /\ {1, 2} \subseteq Survivors
    /\ polygons[1].poly = polygons[2].poly
    /\ polygons[1].conf < polygons[2].conf
    /\ fp_ret.item = 2

\* ------------------------------------------------------------------ concurrency
\* The invocation r run alone, to its end.
RECURSIVE RunAlone(_)
RunAlone(r) == IF r.pc = "done" THEN r ELSE RunAlone(ExecStep(r, ViewOf(r)))

C21_RadiiNonDecreasing ==
    /\ (g_pc \in {"execute_pipeline", "find_best_detection"} /\ g_mpp > 0) =>
           /\ Len(g_out) = 2
           /\ g_out[1].value <= g_out[2].value
    /\ (/\ g_in.fn = "buffer_radius_to_pixels"
        /\ g_pc = "returned"
        /\ g_in.area_sqft = BUFFER_1200
        /\ g_mpp > 0) =>
           LET wide == buffer_radius_to_pixels(BUFFER_2400, SQFT_TO_SQM_E6,
                                               g_in.lat, g_in.zoom, g_in.scale)
           IN  wide.kind = "value" /\ g_out[1].value <= wide.value

\* _process_sample has computed both radii at 60 degrees north, and the narrow
\* one is the smaller.
C21_Witness ==
    /\ g_in.fn = "process_sample"
    /\ g_pc = "find_best_detection"
    /\ g_in.lat = 60
    /\ g_mpp > 0
    /\ g_out[1].value < g_out[2].value

\* The same in detect, on the equator.
DetectRadiiOrderedReached ==
    /\ g_in.fn = "detect"
    /\ g_pc = "execute_pipeline"
    /\ g_in.lat = 0
    /\ g_out[1].value < g_out[2].value

\* The latitudes between the poles: those at which the ground resolution is
\* defined and positive.
BetweenPoles(lat) == -90 < lat /\ lat < 90

\* The function called in g_in, at another zoom level.
MppAtZoom(z) ==
    IF g_in.fn = "get_meters_per_pixel"
    THEN get_meters_per_pixel(g_in.lat, z, g_in.scale)
    ELSE calculate_meters_per_pixel(g_in.lat, z, g_in.scale)

MppBeyondPolesRises ==
    (/\ g_in.fn \in {"get_meters_per_pixel", "calculate_meters_per_pixel"}
     /\ g_pc = "returned"
     /\ g_in.lat > 90) =>
        /\ g_mpp < 0
        /\ \A z \in Zooms : z > g_in.zoom => MppAtZoom(z) > g_mpp

\* ------------------------------------------------------------------ quality checks
\* The checks of the QualityClassifier in their order.
CheckOrder == <<"sharpness", "too_dark", "too_bright", "contrast">>

\* The checks evaluated on the loaded image.
ChecksOnImage == SelectSeq(q_checks, LAMBDA c : c # "loaded")

\* Check number k of CheckOrder fails on the image, by the thresholds of the
\* module called; the sharpness threshold is the one of quality.py.
CheckFails(k) ==
    CASE k = 1 -> q_img.sharp < BLUR_THRESHOLD
      [] k = 2 -> IF q_impl = "quality" THEN q_img.mean < MIN_BRIGHTNESS
                  ELSE q_img.mean < BRIGHTNESS_THRESHOLD_LOW
      [] k = 3 -> IF q_impl = "quality" THEN q_img.mean > MAX_BRIGHTNESS
                  ELSE q_img.bright_pct > CLOUD_THRESHOLD_PCT
      [] k = 4 -> q_img.std < MIN_STD

FailingChecks == {k \in 1..4 : CheckFails(k)}

FirstFailing == CHOOSE k \in FailingChecks : \A j \in FailingChecks : k <= j

\* The check a returned reason belongs to.
ReasonCheck(reason) ==
    CASE reason \in {"Image too blurry"} -> "sharpness"
      [] reason \in {"Image too dark"} -> "too_dark"
      [] reason \in {"Image too bright/cloudy", "Heavy cloud cover"} -> "too_bright"
      [] reason \in {"Image lacks detail/contrast", "Low image detail"} -> "contrast"
      [] OTHER -> "none"

Verifiable == q_ret.status \in {"VERIFIABLE", "True"}

\* The order, the stop at the first failing check, and the verdict.
ChecksInOrder ==
    /\ IsPrefix(ChecksOnImage, CheckOrder)
    /\ IF FailingChecks = {}
       THEN /\ Verifiable
            /\ ChecksOnImage = CheckOrder
       ELSE /\ ~Verifiable
            /\ Len(ChecksOnImage) = FirstFailing
            /\ ReasonCheck(q_ret.reason) = CheckOrder[FirstFailing]

\* C23: check_quality, of either module, evaluates on a loaded image the
\* checks sharpness, too dark, too bright, contrast in this order and stops at
\* the first that fails: the reason returned is that check's, and the status
\* is verifiable exactly when no check fails.
C23_QualityCheckOrder ==
    (q_pc = "returned" /\ q_img.loaded) => ChecksInOrder

\* What holds: quality.ImageQualityChecker, which detect calls, does so.
QualityPyChecksInOrder ==
    (q_pc = "returned" /\ q_img.loaded /\ q_impl = "quality") => ChecksInOrder

\* quality.py has returned the reason of the second check on an image that
\* also fails the fourth.
QualityPyStoppedAtFirstFailure ==
    /\ q_pc = "returned" /\ q_impl = "quality"
    /\ FailingChecks = {2, 4}
    /\ q_ret.reason = "Image too dark"
    /\ q_checks = <<"loaded", "sharpness", "too_dark">>

\* image_processor.ImageQualityChecker, which the batch pipeline and the
\* server call, has no sharpness check; its other checks are in the order of
\* the claim and stop at the first failure.
ImageProcessorChecksWithoutSharpness ==
    (q_pc = "returned" /\ q_img.loaded /\ q_impl = "image_processor") =>
        LET failing == FailingChecks \ {1}
        IN  /\ IsPrefix(ChecksOnImage, Tail(CheckOrder))
            /\ Verifiable <=> failing = {}
            /\ failing # {} =>
                   LET first == CHOOSE k \in failing : \A j \in failing : k <= j
                   IN  /\ Len(ChecksOnImage) = first - 1
                       /\ ReasonCheck(q_ret.reason) = CheckOrder[first]

\* ------------------------------------------------------------------ error result
\* The entries of the normal result, as _format_response builds it.
ResponseEntries == DOMAIN format_response([qc_status |-> "", qc_reason |-> ""]
                                          @@ InitialResult(0))

\* C24: when the image cannot be loaded, detect returns a result with
\* has_solar = false, confidence 0 and a reason, which carries every entry of
\* the normal result.
C24_ErrorResultWellFormed ==
    pc = "error_returned" =>
        /\ response.has_solar = FALSE
        /\ response.confidence = 0
        /\ "error" \in DOMAIN response
        /\ ResponseEntries \subseteq DOMAIN response

\* What does hold: the error result reports no match, confidence 0, the
\* reason and an empty bbox, and no stage has run.
ErrorResultReportsNoMatch ==
    pc = "error_returned" =>
        /\ response.has_solar = FALSE
        /\ response.confidence = 0
        /\ response.error = "Image load failed"
        /\ response.bbox_or_mask = NoBox
        /\ evals = <<>>
        /\ calls = [det_orig |-> 0, det_sat |-> 0, enh |-> 0]

\* The entries of the normal result the error result lacks.
ErrorResultLacksEntries ==
    /\ pc = "error_returned"
    /\ ResponseEntries \ DOMAIN response =
          {"buffer_radius_sqft", "qc_status", "detection_method", "qc_reason"}

\* ------------------------------------------------------------------ two-stage selection
\* What find_best_panel returns for the narrow and for the wide buffer, with
\* the library behaviour recorded in raised.
NarrowMatch(items, r1, raised) ==
    find_best_panel(items, r1, MIN_OVERLAP_AREA, raised[1])

WideMatch(items, r2, raised) ==
    find_best_panel(items, r2, MIN_OVERLAP_AREA, raised[2])

\* res is the result the two-stage selection owes for these arguments: the
\* narrow match with the narrow buffer and its radius, else the wide match
\* with the wide buffer and its radius, else no match, confidence 0, area 0,
\* no polygon and the wide buffer with its radius.
TwoStageResult(res, items, r1, r2, mpp, raised) ==
    IF items # <<>> /\ NarrowMatch(items, r1, raised).polygon # None
    THEN LET m == NarrowMatch(items, r1, raised)
         IN  /\ res.has_solar
             /\ res.buffer_sqft = BUFFER_1200 /\ res.radius_px = r1
             /\ res.polygon = m.polygon /\ res.confidence = m.confidence
             /\ res.area_sqm = PolyArea(m.polygon) * mpp * mpp
    ELSE IF items # <<>> /\ WideMatch(items, r2, raised).polygon # None
    THEN LET m == WideMatch(items, r2, raised)
         IN  /\ res.has_solar
             /\ res.buffer_sqft = BUFFER_2400 /\ res.radius_px = r2
             /\ res.polygon = m.polygon /\ res.confidence = m.confidence
             /\ res.area_sqm = PolyArea(m.polygon) * mpp * mpp
    ELSE /\ res.has_solar = FALSE
         /\ res.confidence = 0
         /\ res.area_sqm = 0
         /\ res.polygon = None
         /\ res.buffer_sqft = BUFFER_2400 /\ res.radius_px = r2

\* C25: _find_best_detection calls find_best_panel with the radius of the
\* 1200 sq.ft buffer first and with the radius of the 2400 sq.ft buffer only
\* after the first call returned no polygon; it makes no third call; its
\* result, in the batch pipeline and in the server, is the match of the
\* buffer that produced it with that buffer's area and radius, and without a
\* match (or on an empty list) has_solar = false, confidence 0, area 0, no
\* polygon, and the 2400 sq.ft buffer with its radius.
C25_TwoStageSelection ==
    /\ fbd_pc = "call1" =>
          /\ buffer_radius_px = radius_1_px /\ min_overlap = MIN_OVERLAP_AREA
          /\ polygons = fbd_polygons
          /\ fbd_raised = <<>>
    /\ fbd_pc = "call2" =>
          /\ buffer_radius_px = radius_2_px /\ min_overlap = MIN_OVERLAP_AREA
          /\ polygons = fbd_polygons
          /\ Len(fbd_raised) = 1
          /\ NarrowMatch(fbd_polygons, radius_1_px, fbd_raised).polygon = None
    /\ Len(fbd_raised) <= 2
    /\ fbd_pc = "done" =>
          /\ (Len(fbd_raised) = 2 =>
                 NarrowMatch(fbd_polygons, radius_1_px, fbd_raised).polygon = None)
          /\ (fbd_polygons = <<>> => fbd_raised = <<>>)
          /\ TwoStageResult(fbd_result, fbd_polygons, radius_1_px, radius_2_px,
                            fbd_meters_per_px, fbd_raised)
          /\ TwoStageResult(server_find_best_detection(fbd_polygons, radius_1_px,
                                radius_2_px, fbd_meters_per_px, fbd_raised),
                            fbd_polygons, radius_1_px, radius_2_px,
                            fbd_meters_per_px, fbd_raised)

\* The narrow buffer gave no match and the wide one did: the result reports
\* the 2400 sq.ft buffer and its radius.
C25_Witness ==
    /\ fbd_pc = "done"
    /\ Len(fbd_raised) = 2
    /\ fbd_result.has_solar
    /\ fbd_result.buffer_sqft = BUFFER_2400
    /\ fbd_result.radius_px = radius_2_px
    /\ fbd_result.area_sqm > 0

\* The narrow buffer matched: one call, the 1200 sq.ft buffer is reported.
TwoStageNarrowMatchReached ==
    /\ fbd_pc = "done"
    /\ Len(fbd_raised) = 1
    /\ fbd_result.has_solar
    /\ fbd_result.buffer_sqft = BUFFER_1200
    /\ fbd_result.radius_px = radius_1_px

\* Neither buffer matched on a list that is not empty.
TwoStageNoMatchReached ==
    /\ fbd_pc = "done"
    /\ fbd_polygons # <<>>
    /\ Len(fbd_raised) = 2
    /\ ~fbd_result.has_solar

\* C28: for the same detection list, radii and ground resolution (and the
\* same behaviour of the geometry library), _find_best_detection of the batch
\* pipeline and _find_best_detection of the server return the same has_solar,
\* buffer_sqft, area_sqm, confidence, polygon and radius_px.
C28_PipelineServerEquivalent ==
    fbd_pc = "done" =>
        LET served == server_find_best_detection(fbd_polygons, radius_1_px,
                          radius_2_px, fbd_meters_per_px, fbd_raised)
        IN  /\ fbd_result.has_solar = served.has_solar
            /\ fbd_result.buffer_sqft = served.buffer_sqft
            /\ fbd_result.area_sqm = served.area_sqm
            /\ fbd_result.confidence = served.confidence
            /\ fbd_result.polygon = served.polygon
            /\ fbd_result.radius_px = served.radius_px

\* Both have returned the narrow match of a list of two items, the second of
\* which is the better one.
C28_Witness ==
    /\ fbd_pc = "done"
    /\ Len(fbd_polygons) = 2
    /\ fbd_result.has_solar
    /\ fbd_result.buffer_sqft = BUFFER_1200
    /\ fbd_result.polygon = fbd_polygons[2].poly
    /\ fbd_result.confidence > fbd_polygons[1].conf
    /\ fbd_result = server_find_best_detection(fbd_polygons, radius_1_px,
                         radius_2_px, fbd_meters_per_px, fbd_raised)

\* ------------------------------------------------------------------ _find_best_match
\* The overlap of box number i (from 1) of the last evaluated stage with that
\* stage's buffer disk.
LastStageOverlap(i) ==
    calculate_intersection_area(StageBoxes(Len(evals))[i], Center,
                                StageRadius(Len(evals)))

\* C26: _find_best_match returns index -1 exactly when no box has a positive
\* intersection area with the buffer disk; otherwise it returns the lowest
\* index among the boxes of maximum intersection area, and that area as the
\* overlap.
C26_FindBestMatchIndex ==
    evals # <<>> =>
        LET n == Len(StageBoxes(Len(evals)))
            best_idx == fbm_ret[1]
            max_overlap == fbm_ret[2]
        IN  /\ (best_idx = -1) <=> (\A i \in 1..n : LastStageOverlap(i) <= 0)
            /\ best_idx # -1 =>
                   /\ best_idx \in 0..(n - 1)
                   /\ \A i \in 1..n : LastStageOverlap(i) <= LastStageOverlap(best_idx + 1)
                   /\ \A i \in 1..best_idx :
                          LastStageOverlap(i) < LastStageOverlap(best_idx + 1)
                   /\ max_overlap = LastStageOverlap(best_idx + 1)
                   /\ max_overlap > 0

\* A call on two boxes of the same, maximum overlap has returned index 0.
C26_Witness ==
    /\ evals = <<"initial_1200">>
    /\ Len(boxes) = 2
    /\ LastStageOverlap(1) = LastStageOverlap(2)
    /\ LastStageOverlap(1) > 0
    /\ fbm_ret = <<0, LastStageOverlap(1)>>

\* A call whose second box has the larger overlap has returned index 1.
FindBestMatchTookLaterBox ==
    /\ evals # <<>>
    /\ Len(StageBoxes(Len(evals))) = 2
    /\ 0 < LastStageOverlap(1)
    /\ LastStageOverlap(1) < LastStageOverlap(2)
    /\ fbm_ret = <<1, LastStageOverlap(2)>>

\* A call on boxes none of which overlaps the disk has returned (-1, 0).
FindBestMatchNoneReached ==
    /\ evals # <<>>
    /\ StageBoxes(Len(evals)) # <<>>
    /\ fbm_ret = NoMatch

\* ------------------------------------------------------------------ result indices
\* The number (1..4) of the stage with this method label.
StageOf(method) == CHOOSE k \in 1..4 : StageOrder[k] = method

\* C27: a result of _execute_pipeline with a match has a selected_idx that is
\* an index of all_boxes, all_boxes[selected_idx] is the reported bbox and
\* all_confs[selected_idx] the reported confidence, all_boxes and all_confs
\* are of one length and are the detections of the matched stage's image
\* variant; a result without a match has selected_idx = -1 and an empty bbox.
C27_ResultIndices ==
    pc \in {"done", "responded"} =>
        IF result.has_solar
        THEN /\ result.selected_idx \in 0..(Len(result.all_boxes) - 1)
             /\ Len(result.all_boxes) = Len(result.all_confs)
             /\ result.all_boxes[result.selected_idx + 1] = result.bbox
             /\ result.all_confs[result.selected_idx + 1] = result.confidence
             /\ result.method \in {StageOrder[k] : k \in 1..4}
             /\ result.all_boxes = StageBoxes(StageOf(result.method))
             /\ result.all_confs = StageConfs(StageOf(result.method))
        ELSE /\ result.selected_idx = -1
             /\ result.bbox = NoBox

\* A match of the second stage on the second box of the enhanced image's
\* detections, which differ from the original image's.
C27_Witness ==
    /\ pc = "done"
    /\ result.method = "saturated_1200"
    /\ result.selected_idx = 1
    /\ boxes # <<>>
    /\ boxes # sat_boxes
    /\ result.all_boxes = sat_boxes
    /\ result.bbox = sat_boxes[2]

\* ------------------------------------------------------------------ find_best_panel: frame
\* What find_best_panel returned is the polygon and confidence of an item of
\* its list with that item's overlap, or exactly (None, 0.0, 0.0).
ReturnedFromInput ==
    fp_pc = "returned" =>
        IF fp_ret.polygon # None
        THEN \E i \in 1..Len(polygons) :
                /\ polygons[i].poly = fp_ret.polygon
                /\ polygons[i].conf = fp_ret.confidence
                /\ fp_ret.overlap = OverlapArea(polygons[i].poly, Center,
                                                buffer_radius_px)
        ELSE /\ fp_ret.confidence = 0
             /\ fp_ret.overlap = 0

\* find_best_panel is at one of its statements.
FpRunning == fp_pc \in {"start", "loop"}

\* C29: no statement of find_best_panel changes its argument list, and what
\* it returns is the polygon and the confidence of one item of the list
\* together with that item's overlap with the buffer disk, or exactly
\* (None, 0.0, 0.0).
C29_InputUnchanged ==
    /\ []ReturnedFromInput
    /\ [][FpRunning => UNCHANGED <<polygons, buffer_radius_px, min_overlap>>]_vars

\* find_best_panel has returned the second of two candidates, and the list
\* still starts with the first.
C29_Witness ==
    /\ fp_pc = "returned"
    /\ Len(polygons) = 2
    /\ Len(candidates) = 2
    /\ fp_ret.item = 2
    /\ fp_ret.polygon = polygons[2].poly
    /\ fp_ret.polygon # polygons[1].poly
    /\ candidates[1].item = 2

\* ---- C30
\* The rows the loop of run has finished with.
BatchDone == SubSeq(b_samples, 1, b_i - 1)

DownloadSucceeded(row) == row.download = "ok"

DownloadFailed(row) == row.download \in DownloadFailures

RecordsOf(rows) == [j \in 1..Len(rows) |-> process_sample_output(rows[j])]

SampleIdsOf(rows) == [j \in 1..Len(rows) |-> rows[j].sample_id]

BatchRunning == b_pc \in {"loop", "detect", "aborted", "saved"}

\* C30: in a batch run a sample whose download fails is skipped without
\* stopping the run.  Of the rows the loop has finished with, results holds
\* exactly one record per downloaded row, in input order, and none for a
\* skipped one; the run never stops at a row whose download failed, it
\* stops only after the last row or on an exception of a downloaded row; and
\* the combined file is written once, after every row, with exactly the
\* records of the downloaded rows in input order.
C30_FailedDownloadSkipped ==
    /\ BatchRunning =>
          /\ b_results = RecordsOf(SelectSeq(BatchDone, DownloadSucceeded))
          /\ b_skipped = SampleIdsOf(SelectSeq(BatchDone, DownloadFailed))
    /\ (BatchRunning /\ ~ENABLED NextBatch) =>
          \/ b_pc = "saved"
          \/ b_pc = "aborted" /\ DownloadSucceeded(b_samples[b_i])
    /\ b_pc = "saved" =>
          /\ b_i = Len(b_samples) + 1
          /\ b_saved = <<RecordsOf(SelectSeq(b_samples, DownloadSucceeded))>>
    /\ b_pc # "saved" => b_saved = <<>>

\* A finished run in which a download failed and a later row was processed
\* into a record of the combined file.
C30_Witness ==
    /\ b_pc = "saved"
    /\ \E j \in 1..Len(b_samples) : \E k \in (j + 1)..Len(b_samples) :
          /\ DownloadFailed(b_samples[j])
          /\ \E n \in 1..Len(b_saved[1]) : b_saved[1][n].sample_id = b_samples[k].sample_id
          /\ \A n \in 1..Len(b_saved[1]) : b_saved[1][n].sample_id # b_samples[j].sample_id

\* Outside the claim's case: an exception of the Detector on a downloaded
\* row ends the run with rows left and no combined file.
BatchAbortedByDetector ==
    /\ b_pc = "aborted"
    /\ b_i < Len(b_samples)
    /\ b_saved = <<>>

====
